---- MODULE Spec2Model ----
(***************************************************************************)
(* Model of the infra registry server.                                     *)
(*                                                                         *)
(* Part I: the destination-access long-poll (ListDestinationAccess), its   *)
(* listener connection (ListenForNotify / WaitForNotification / Release)   *)
(* and the grant / group-membership store it reads.                        *)
(*                                                                         *)
(* Part II: the access-key engine behind the authentication middleware:    *)
(* Validate and the throttled TouchActivity of concurrent requests that    *)
(* present the same access key.                                            *)
(*                                                                         *)
(* Part III: the authentication middleware as a pipeline over one request: *)
(* bearer collection, organization resolution, validation, attachment.     *)
(*                                                                         *)
(* Part IV: the bootstrap loader (loadConfig, importAPITokens,             *)
(* importConfig) reconciling the configuration into the database.          *)
(*                                                                         *)
(* Part V: the secret and key provider registry built at startup           *)
(* (importSecrets, loadDefaultSecretConfig, importKeyProviders).           *)
(*                                                                         *)
(* Part VI: the password rules (checkPasswordRequirements).                *)
(*                                                                         *)
(* Part VII: the credential handlers (RequestPasswordReset,                *)
(* UpdateCredential) over the credentials, reset tokens and the            *)
(* authenticating access key.                                              *)
(***************************************************************************)
EXTENDS Integers, FiniteSets, Sequences, TLC

\* ------------------------------------------------------------------ bounds

\* The number of users in a bootstrap configuration.
MaxUsers == 2

\* The number of bootstrap runs.
MaxRuns == 2

\* The number of entries in a list of storage or key providers.
MaxEntries == 2

\* The length of the longest password checked.
MaxPasswordLength == 8

\* Number of grant / membership mutations the environment commits.
MaxSeq == 3

\* Last tick of the clock of Part II.
MaxTime == 4

\* ------------------------------------------------------------- universe

Nil == "nil"

\* Concurrent handler invocations of ListDestinationAccess (one per client).
Reqs == {"r1"}

\* Pooled database connections that ListenForNotify can acquire.
Conns == {"c1"}

Groups == {"g1"}

\* Identities: alice can hold a direct grant, bob can be a member of g1.
DirectUsers == {"alice"}
MemberUsers == {"bob"}

\* Grant subjects (models.Subject: identity:<id> | group:<id>).
IdentitySubject(u) == [kind |-> "identity", id |-> u]
GroupSubject(g) == [kind |-> "group", id |-> g]
Subjects == {IdentitySubject(u) : u \in DirectUsers} \cup {GroupSubject(g) : g \in Groups}

SetMax(S) == IF S = {} THEN 0 ELSE CHOOSE x \in S : \A y \in S : y <= x

\* ---------------------------------------------------------------- state

VARIABLES
    \* data store (grants on the one destination, group memberships)
    db,          \* [grants: Subject -> [idx, live], members: Group -> SUBSET user, groupIdx: Group -> Nat]
    seq,         \* last value handed out by the update-index sequence
    committed,   \* every database state that has been committed so far
    \* connections of the pool
    connOwner,   \* Conn -> "pool" or the request that acquired it
    connSubs,    \* Conn -> set of channels the session LISTENs on
    connPending, \* Conn -> notifications received and not yet consumed
    \* one ListDestinationAccess call per request slot
    pc,          \* position in the handler
    last,        \* r.LastUpdateIndex of the call
    ctx,         \* request context: "live" | "deadline" | "canceled"
    reqTxOpen,   \* rCtx.DBTxn is open
    snapTxOpen,  \* the snapshot transaction is open
    txSnap,      \* database state captured by the snapshot transaction's first read
    txItems,     \* items read by the snapshot transaction's first statement
    channels,    \* descriptors computed from ListGrants
    conn,        \* listener.pgxConn (Nil when none)
    result,      \* *ListDestinationAccessResponse: [present, items, index]
    err,         \* returned error
    \* observations of a call
    listened,    \* ListenForNotify returned a listener
    waited,      \* WaitForNotification was called
    releases,    \* number of Listener.Release calls
    firstSnap,   \* the result computed before waiting
    \* the client of a slot
    clientIdx    \* highest lastUpdateIndex the client has received

dbVars == <<db, seq, committed>>
connVars == <<connOwner, connSubs, connPending>>
callVars == <<pc, last, ctx, reqTxOpen, snapTxOpen, txSnap, txItems, channels, conn, result, err>>
obsVars == <<listened, waited, releases, firstSnap>>
pollVars == <<dbVars, connVars, callVars, obsVars, clientIdx>>

VARIABLES
    \* the clock, the access key row and the row of the identity it is issued for
    now,         \* current time, in ticks
    key,         \* [expiresAt, inactivityTimeout, inactivityExtension]
    lastSeenAt,  \* identity.last_seen_at
    \* one authenticated request per slot, all presenting the same key
    apc,         \* position in the middleware
    loaded,      \* last_seen_at of the Identity row that Validate returned
    validatedAt, \* the time at which Validate accepted or rejected the key
    status,      \* HTTP status of the response (0 while running)
    \* observations
    writeLog     \* the times of the writes of last_seen_at, in order

keyVars == <<now, key, lastSeenAt, apc, loaded, validatedAt, status, writeLog>>

\* Part III: one request through the authentication middleware
VARIABLES
    httpReq,     \* the request: signup cookie, auth cookie, Authorization header, host
    mwpc,        \* position in the middleware
    bearer,      \* the candidate bearer collected from the request
    hostOrg,     \* the organization derived from the request host
    accessKey,   \* the access-key row loaded for the bearer
    authned,     \* the authenticated {access key, user, organization} attached
    resp         \* the response: status and error

authVars == <<httpReq, mwpc, bearer, hostOrg, accessKey, authned, resp>>

\* Part IV: the bootstrap loader
VARIABLES
    config,      \* the bootstrap configuration
    store,       \* the persisted database
    bootTx,      \* the state seen inside the open transaction
    inTx,        \* a transaction is open
    defaultOrg,  \* the in-memory default organization (its domain)
    bootPc,      \* position in the bootstrap run
    userIdx,     \* index of the next configured user
    keysLeft,    \* the API tokens still to import in this run
    bootTime,    \* the time of the current run
    runs,        \* the number of runs started
    bootErr,     \* the error of the current run
    \* observations
    storeAtStart, \* the persisted database when the current run started
    afterLoad     \* what the last successful loadConfig left persisted

bootVars == <<config, store, bootTx, inTx, defaultOrg, bootPc, userIdx, keysLeft,
              bootTime, runs, bootErr, storeAtStart, afterLoad>>

\* Part V: the secret and key provider registry
VARIABLES
    secretsCfg,  \* the configured storage providers
    keysCfg,     \* the configured key providers
    k8sHost,     \* KUBERNETES_SERVICE_HOST is set
    storage,     \* the storage providers registered by name
    keys,        \* the key providers registered by kind
    regPc,       \* position in the startup of the registry
    regIdx,      \* index of the next entry of the current pass
    regErr,      \* the error that ended the startup
    \* observations
    resolved     \* the references resolved: entry, provider it went through

regVars == <<secretsCfg, keysCfg, k8sHost, storage, keys, regPc, regIdx, regErr, resolved>>

\* Part VI: the password rules
VARIABLES
    pwUser,      \* the name of the user
    pwPassword,  \* the password, a sequence of code points
    pwPc,        \* position of the check
    pwResult     \* the error of checkPasswordRequirements, Nil if none

pwVars == <<pwUser, pwPassword, pwPc, pwResult>>

\* Part VII: the credential handlers
VARIABLES
    credDb,      \* credentials, scopes of the stored access key, reset tokens, emails sent
    credAuth,    \* rCtx.Authenticated: user, admin role, access key in memory
    credReq,     \* the request being served
    credResp,    \* its response
    credPc       \* position of the handler

credVars == <<credDb, credAuth, credReq, credResp, credPc>>

vars == <<pollVars, keyVars, authVars, bootVars, regVars, pwVars, credVars>>

\* ----------------------------------------------------------- data store

NoGrant == [idx |-> 0, live |-> FALSE]

EmptyDB ==
    [grants   |-> [s \in Subjects |-> NoGrant],
     members  |-> [g \in Groups |-> {}],
     groupIdx |-> [g \in Groups |-> 0]]

\* Groups that are the subject of a current grant on the destination.
GrantGroups(d) == {g \in Groups : d.grants[GroupSubject(g)].live}

\* data.ListDestinationAccess: one item per user with access, group grants
\* expanded to the members of the group.
DestinationAccessItems(d) ==
    {[user |-> u, via |-> "identity"] : u \in {x \in DirectUsers : d.grants[IdentitySubject(x)].live}}
    \cup {[user |-> u, via |-> "group"] : u \in UNION {d.members[g] : g \in GrantGroups(d)}}

\* data.DestinationAccessMaxUpdateIndex: max over the update_index of the
\* destination's grant rows and of the memberships of its subject groups.
DestinationAccessMaxUpdateIndex(d) ==
    SetMax({d.grants[s].idx : s \in Subjects} \cup {d.groupIdx[g] : g \in GrantGroups(d)})

\* ------------------------------------------------------------- channels

\* ListenChannelGrantsByDestination.Channel()
GrantsByDestChannel == <<"grantsByDest", "org", "dest">>

\* ListenChannelGroupMembership.Channel()
GroupMembershipChannel(g) == <<"group_membership", "org", g>>

\* NOTIFY at commit: every session that LISTENs on the channel receives it,
\* whether its connection is checked out or idle in the pool.
Notify(ch) ==
    connPending' = [c \in Conns |->
        IF ch \in connSubs[c] THEN connPending[c] + 1 ELSE connPending[c]]

Commit(d) ==
    /\ seq < MaxSeq
    /\ db' = d
    /\ seq' = seq + 1
    /\ committed' = committed \cup {d}

\* ------------------------------------------------- grant mutations (env)

CreateGrant(s) ==
    /\ ~db.grants[s].live
    /\ Commit([db EXCEPT !.grants[s] = [idx |-> seq + 1, live |-> TRUE]])
    /\ Notify(GrantsByDestChannel)
    /\ UNCHANGED <<connOwner, connSubs, callVars, obsVars, clientIdx>>

\* Soft delete: the row stays, with deleted_at set and a new update index.
DeleteGrant(s) ==
    /\ db.grants[s].live
    /\ Commit([db EXCEPT !.grants[s] = [idx |-> seq + 1, live |-> FALSE]])
    /\ Notify(GrantsByDestChannel)
    /\ UNCHANGED <<connOwner, connSubs, callVars, obsVars, clientIdx>>

AddMember(g, u) ==
    /\ u \notin db.members[g]
    /\ Commit([db EXCEPT !.members[g] = @ \cup {u}, !.groupIdx[g] = seq + 1])
    /\ Notify(GroupMembershipChannel(g))
    /\ UNCHANGED <<connOwner, connSubs, callVars, obsVars, clientIdx>>

RemoveMember(g, u) ==
    /\ u \in db.members[g]
    /\ Commit([db EXCEPT !.members[g] = @ \ {u}, !.groupIdx[g] = seq + 1])
    /\ Notify(GroupMembershipChannel(g))
    /\ UNCHANGED <<connOwner, connSubs, callVars, obsVars, clientIdx>>

\* ------------------------------------------------------ request context

\* The request deadline passes while the call is running.
CtxDeadline(r) ==
    /\ pc[r] \notin {"idle", "done"}
    /\ ctx[r] = "live"
    /\ ctx' = [ctx EXCEPT ![r] = "deadline"]
    /\ UNCHANGED <<dbVars, connVars, pc, last, reqTxOpen, snapTxOpen, txSnap, txItems, channels,
                   conn, result, err, obsVars, clientIdx>>

\* The client goes away while the call is running.
CtxCancel(r) ==
    /\ pc[r] \notin {"idle", "done"}
    /\ ctx[r] = "live"
    /\ ctx' = [ctx EXCEPT ![r] = "canceled"]
    /\ UNCHANGED <<dbVars, connVars, pc, last, reqTxOpen, snapTxOpen, txSnap, txItems, channels,
                   conn, result, err, obsVars, clientIdx>>

\* ------------------------------------------------ ListDestinationAccess

NoResult == [present |-> FALSE, items |-> {}, index |-> 0]

\* Variant: the test for a non-blocking request never matches.
IsNonBlockingRequest_Never(l) == l < 0

\* if r.LastUpdateIndex == 0
IsNonBlockingRequest(l) == l = 0

\* Variant: the snapshot transaction runs at the default isolation level.
Isolation_ReadCommitted == "ReadCommitted"

\* The isolation level of the snapshot transaction.
Isolation == "RepeatableRead"

\* What a statement of the snapshot transaction of r reads: under repeatable
\* read the state captured by its first statement, under read committed the
\* state committed when the statement runs.
TxView(r) == IF Isolation = "RepeatableRead" THEN txSnap[r] ELSE db

\* Variant: the operands of the comparison are swapped.
ReturnsImmediately_Swapped(index, l) == l > index

\* if result.LastUpdateIndex.Index > r.LastUpdateIndex { return result, nil }
ReturnsImmediately(index, l) == index > l

\* Variant: the deadline is reported like any other failure of the wait.
WaitError_NoSentinel(c) == IF c = "live" THEN "none" ELSE "waitingForNotify"

\* The error WaitForNotification's outcome is turned into.
WaitError(c) ==
    CASE c = "deadline" -> "notModified"
      [] c = "canceled" -> "waitingForNotify"
      [] OTHER -> "none"

\* Variant: Release is called before the final return only, not deferred.
DeferredRelease_OnSuccessOnly(hasListener, e) == hasListener /\ e = "none"

\* The deferred listener.Release runs on every return once the defer
\* statement has been reached, whatever is returned.
DeferredRelease(hasListener, e) == hasListener

\* A return statement of the handler: the deferred release runs first.
Return(r, res, e) ==
    /\ result' = [result EXCEPT ![r] = res]
    /\ err' = [err EXCEPT ![r] = e]
    /\ pc' = [pc EXCEPT ![r] = IF DeferredRelease(listened[r], e) THEN "release" ELSE "done"]

\* A client issues a call; the middleware opens the request transaction.
Start(r, l) ==
    /\ pc[r] = "idle"
    /\ pc' = [pc EXCEPT ![r] = "authorize"]
    /\ last' = [last EXCEPT ![r] = l]
    /\ reqTxOpen' = [reqTxOpen EXCEPT ![r] = TRUE]
    /\ UNCHANGED <<dbVars, connVars, ctx, snapTxOpen, txSnap, txItems, channels, conn,
                   result, err, obsVars, clientIdx>>

\* GET .../access?lastUpdateIndex=0: the plain listing.
StartList(r) == Start(r, 0)

\* GET .../access?lastUpdateIndex=N with the index the client holds.
StartLongPoll(r) == clientIdx[r] > 0 /\ Start(r, clientIdx[r])

\* access.IsAuthorized succeeds.
AuthorizeOK(r) ==
    /\ pc[r] = "authorize"
    /\ ctx[r] = "live"
    /\ pc' = [pc EXCEPT ![r] = IF IsNonBlockingRequest(last[r]) THEN "listAll" ELSE "listGrants"]
    /\ UNCHANGED <<dbVars, connVars, last, ctx, reqTxOpen, snapTxOpen, txSnap, txItems, channels,
                   conn, result, err, obsVars, clientIdx>>

\* access.IsAuthorized fails: return nil, HandleAuthErr(...)
AuthorizeFail(r) ==
    /\ pc[r] = "authorize"
    /\ Return(r, NoResult, "notAuthorized")
    /\ UNCHANGED <<dbVars, connVars, last, ctx, reqTxOpen, snapTxOpen, txSnap, txItems, channels,
                   conn, obsVars, clientIdx>>

\* LastUpdateIndex == 0: list in the request transaction and return; the
\* response carries no LastUpdateIndex.
ListAllOK(r) ==
    /\ pc[r] = "listAll"
    /\ ctx[r] = "live"
    /\ Return(r, [present |-> TRUE, items |-> DestinationAccessItems(db), index |-> 0], "none")
    /\ UNCHANGED <<dbVars, connVars, last, ctx, reqTxOpen, snapTxOpen, txSnap, txItems, channels,
                   conn, obsVars, clientIdx>>

ListAllFail(r) ==
    /\ pc[r] = "listAll"
    /\ Return(r, NoResult, "internal")
    /\ UNCHANGED <<dbVars, connVars, last, ctx, reqTxOpen, snapTxOpen, txSnap, txItems, channels,
                   conn, obsVars, clientIdx>>

\* data.GetDestination and data.ListGrants in the request transaction; the
\* channel descriptors are computed from the grants listed here.
ListGrantsOK(r) ==
    /\ pc[r] = "listGrants"
    /\ ctx[r] = "live"
    /\ channels' = [channels EXCEPT ![r] =
            {GrantsByDestChannel} \cup {GroupMembershipChannel(g) : g \in GrantGroups(db)}]
    /\ pc' = [pc EXCEPT ![r] = "rollback"]
    /\ UNCHANGED <<dbVars, connVars, last, ctx, reqTxOpen, snapTxOpen, txSnap, txItems,
                   conn, result, err, obsVars, clientIdx>>

ListGrantsFail(r) ==
    /\ pc[r] = "listGrants"
    /\ Return(r, NoResult, "internal")
    /\ UNCHANGED <<dbVars, connVars, last, ctx, reqTxOpen, snapTxOpen, txSnap, txItems, channels,
                   conn, obsVars, clientIdx>>

\* Variant: the handler goes on to listen with the request transaction open.
RollbackRequestTxnOK_Skipped(r) ==
    /\ pc[r] = "rollback"
    /\ pc' = [pc EXCEPT ![r] = "listen"]
    /\ UNCHANGED <<dbVars, connVars, last, ctx, reqTxOpen, snapTxOpen, txSnap, txItems,
                   channels, conn, result, err, obsVars, clientIdx>>

\* rCtx.DBTxn.Rollback(): close the request scoped txn before blocking.
RollbackRequestTxnOK(r) ==
    /\ pc[r] = "rollback"
    /\ reqTxOpen' = [reqTxOpen EXCEPT ![r] = FALSE]
    /\ pc' = [pc EXCEPT ![r] = "listen"]
    /\ UNCHANGED <<dbVars, connVars, last, ctx, snapTxOpen, txSnap, txItems, channels,
                   conn, result, err, obsVars, clientIdx>>

RollbackRequestTxnFail(r) ==
    /\ pc[r] = "rollback"
    /\ Return(r, NoResult, "internal")
    /\ UNCHANGED <<dbVars, connVars, last, ctx, reqTxOpen, snapTxOpen, txSnap, txItems, channels,
                   conn, obsVars, clientIdx>>

\* The descriptors ListenForNotify has subscribed to when the k-th LISTEN
\* fails: the destination's channel comes first, the group channels follow.
ListenPrefixes(chs) ==
    {S \in SUBSET chs : S # chs /\ (S # {} => GrantsByDestChannel \in S)}

\* data.ListenForNotify succeeds: a connection is taken out of the pool and
\* LISTENs on every descriptor.
ListenForNotifyOK(r) ==
    /\ pc[r] = "listen"
    /\ ctx[r] = "live"
    /\ \E c \in Conns :
        /\ connOwner[c] = "pool"
        /\ connOwner' = [connOwner EXCEPT ![c] = r]
        /\ connSubs' = [connSubs EXCEPT ![c] = @ \cup channels[r]]
        /\ conn' = [conn EXCEPT ![r] = c]
    /\ listened' = [listened EXCEPT ![r] = TRUE]
    /\ pc' = [pc EXCEPT ![r] = "snapItems"]
    /\ UNCHANGED <<dbVars, connPending, last, ctx, reqTxOpen, snapTxOpen, txSnap, txItems,
                   channels, result, err, waited, releases, firstSnap, clientIdx>>

\* AcquireConn fails: return nil, err.
ListenForNotifyNoConn(r) ==
    /\ pc[r] = "listen"
    /\ Return(r, NoResult, "listenForNotify")
    /\ UNCHANGED <<dbVars, connVars, last, ctx, reqTxOpen, snapTxOpen, txSnap, txItems,
                   channels, conn, obsVars, clientIdx>>

\* A LISTEN fails after a prefix of the descriptors has been subscribed: the
\* connection goes back to the pool without UNLISTEN. A connection the
\* driver found broken is closed instead and the pool replaces it.
ListenForNotifyFail(r) ==
    /\ pc[r] = "listen"
    /\ \E c \in Conns, S \in ListenPrefixes(channels[r]), closed \in BOOLEAN :
        /\ connOwner[c] = "pool"
        /\ connSubs' = [connSubs EXCEPT ![c] = IF closed THEN {} ELSE @ \cup S]
        /\ connPending' = [connPending EXCEPT ![c] = IF closed THEN 0 ELSE @]
    /\ Return(r, NoResult, "listenForNotify")
    /\ UNCHANGED <<dbVars, connOwner, last, ctx, reqTxOpen, snapTxOpen, txSnap, txItems,
                   channels, conn, obsVars, clientIdx>>

\* listDestinationAccessWithMaxUpdateIndex, first statement: Begin and
\* data.ListDestinationAccess(tx, name).
SnapshotItemsOK(r) ==
    /\ pc[r] = "snapItems"
    /\ ctx[r] = "live"
    /\ snapTxOpen' = [snapTxOpen EXCEPT ![r] = TRUE]
    /\ txSnap' = [txSnap EXCEPT ![r] = db]
    /\ txItems' = [txItems EXCEPT ![r] = DestinationAccessItems(db)]
    /\ pc' = [pc EXCEPT ![r] = "snapMax"]
    /\ UNCHANGED <<dbVars, connVars, last, ctx, reqTxOpen, channels, conn, result, err,
                   obsVars, clientIdx>>

\* Variant: the response is built without its LastUpdateIndex.
SnapshotResult_NoIndex(r) == [present |-> TRUE, items |-> txItems[r], index |-> 0]

\* The response built from the snapshot transaction's two reads.
SnapshotResult(r) ==
    [present |-> TRUE, items |-> txItems[r],
     index |-> DestinationAccessMaxUpdateIndex(TxView(r))]

\* Second statement, data.DestinationAccessMaxUpdateIndex(tx, name), the
\* deferred tx.Rollback, and the handler's use of the result: before
\* waiting it returns it if it is new to the client and blocks otherwise;
\* after a notification it returns it.
SnapshotMaxOK(r) ==
    /\ pc[r] = "snapMax"
    /\ ctx[r] = "live"
    /\ snapTxOpen' = [snapTxOpen EXCEPT ![r] = FALSE]
    /\ txSnap' = [txSnap EXCEPT ![r] = EmptyDB]
    /\ txItems' = [txItems EXCEPT ![r] = {}]
    /\ LET res == SnapshotResult(r) IN
        IF waited[r]
        THEN /\ Return(r, res, "none")
             /\ UNCHANGED firstSnap
        ELSE /\ firstSnap' = [firstSnap EXCEPT ![r] = res]
             /\ IF ReturnsImmediately(res.index, last[r])
                THEN Return(r, res, "none")
                ELSE /\ result' = [result EXCEPT ![r] = res]
                     /\ pc' = [pc EXCEPT ![r] = "wait"]
                     /\ UNCHANGED err
    /\ UNCHANGED <<dbVars, connVars, last, ctx, reqTxOpen, channels, conn,
                   listened, waited, releases, clientIdx>>

\* Begin or one of the two reads fails: return nil, err (the deferred
\* rollback closes the transaction).
SnapshotFail(r) ==
    /\ pc[r] \in {"snapItems", "snapMax"}
    /\ snapTxOpen' = [snapTxOpen EXCEPT ![r] = FALSE]
    /\ txSnap' = [txSnap EXCEPT ![r] = EmptyDB]
    /\ txItems' = [txItems EXCEPT ![r] = {}]
    /\ Return(r, NoResult, "internal")
    /\ UNCHANGED <<dbVars, connVars, last, ctx, reqTxOpen, channels, conn,
                   obsVars, clientIdx>>

\* listener.WaitForNotification returns a notification: recompute.
WaitNotified(r) ==
    /\ pc[r] = "wait"
    /\ connPending[conn[r]] > 0
    /\ connPending' = [connPending EXCEPT ![conn[r]] = @ - 1]
    /\ waited' = [waited EXCEPT ![r] = TRUE]
    /\ pc' = [pc EXCEPT ![r] = "snapItems"]
    /\ UNCHANGED <<dbVars, connOwner, connSubs, last, ctx, reqTxOpen, snapTxOpen, txSnap,
                   txItems, channels, conn, result, err, listened, releases, firstSnap,
                   clientIdx>>

\* listener.WaitForNotification returns because the request context is
\* done: not-modified on the deadline, an error on cancellation.
WaitContextDone(r) ==
    /\ pc[r] = "wait"
    /\ ctx[r] # "live"
    /\ waited' = [waited EXCEPT ![r] = TRUE]
    /\ Return(r, result[r], WaitError(ctx[r]))
    /\ UNCHANGED <<dbVars, connVars, last, ctx, reqTxOpen, snapTxOpen, txSnap, txItems,
                   channels, conn, listened, releases, firstSnap, clientIdx>>

\* listener.WaitForNotification fails on the connection.
WaitFail(r) ==
    /\ pc[r] = "wait"
    /\ waited' = [waited EXCEPT ![r] = TRUE]
    /\ Return(r, result[r], "waitingForNotify")
    /\ UNCHANGED <<dbVars, connVars, last, ctx, reqTxOpen, snapTxOpen, txSnap, txItems,
                   channels, conn, listened, releases, firstSnap, clientIdx>>

\* Listener.Release with its own one-minute context: UNLISTEN *, then the
\* connection goes back to the pool.
ReleaseOK(r) ==
    /\ pc[r] = "release"
    /\ connSubs' = [connSubs EXCEPT ![conn[r]] = {}]
    /\ connOwner' = [connOwner EXCEPT ![conn[r]] = "pool"]
    /\ conn' = [conn EXCEPT ![r] = Nil]
    /\ releases' = [releases EXCEPT ![r] = @ + 1]
    /\ pc' = [pc EXCEPT ![r] = "done"]
    /\ UNCHANGED <<dbVars, connPending, last, ctx, reqTxOpen, snapTxOpen, txSnap, txItems,
                   channels, result, err, listened, waited, firstSnap, clientIdx>>

\* UNLISTEN * fails: the error is collected and ReleaseConn still runs. A
\* connection the driver found broken is closed and the pool replaces it.
ReleaseUnlistenFail(r) ==
    /\ pc[r] = "release"
    /\ \E closed \in BOOLEAN :
        /\ connSubs' = [connSubs EXCEPT ![conn[r]] = IF closed THEN {} ELSE @]
        /\ connPending' = [connPending EXCEPT ![conn[r]] = IF closed THEN 0 ELSE @]
    /\ connOwner' = [connOwner EXCEPT ![conn[r]] = "pool"]
    /\ conn' = [conn EXCEPT ![r] = Nil]
    /\ releases' = [releases EXCEPT ![r] = @ + 1]
    /\ pc' = [pc EXCEPT ![r] = "done"]
    /\ UNCHANGED <<dbVars, last, ctx, reqTxOpen, snapTxOpen, txSnap, txItems,
                   channels, result, err, listened, waited, firstSnap, clientIdx>>

\* The response reaches the client, which keeps the highest index it has
\* been given; the middleware closes the request transaction and the call's
\* locals are gone.
Respond(r) ==
    /\ pc[r] = "done"
    /\ pc' = [pc EXCEPT ![r] = "idle"]
    /\ reqTxOpen' = [reqTxOpen EXCEPT ![r] = FALSE]
    /\ clientIdx' = [clientIdx EXCEPT ![r] =
            IF err[r] = "none" /\ result[r].index > @ THEN result[r].index ELSE @]
    /\ last' = [last EXCEPT ![r] = 0]
    /\ ctx' = [ctx EXCEPT ![r] = "live"]
    /\ channels' = [channels EXCEPT ![r] = {}]
    /\ result' = [result EXCEPT ![r] = NoResult]
    /\ err' = [err EXCEPT ![r] = "none"]
    /\ listened' = [listened EXCEPT ![r] = FALSE]
    /\ waited' = [waited EXCEPT ![r] = FALSE]
    /\ releases' = [releases EXCEPT ![r] = 0]
    /\ firstSnap' = [firstSnap EXCEPT ![r] = NoResult]
    /\ UNCHANGED <<dbVars, connVars, snapTxOpen, txSnap, txItems, conn>>

\* ------------------------------------------------------- specification

PollInit ==
    /\ db = EmptyDB
    /\ seq = 0
    /\ committed = {EmptyDB}
    /\ connOwner = [c \in Conns |-> "pool"]
    /\ connSubs = [c \in Conns |-> {}]
    /\ connPending = [c \in Conns |-> 0]
    /\ pc = [r \in Reqs |-> "idle"]
    /\ last = [r \in Reqs |-> 0]
    /\ ctx = [r \in Reqs |-> "live"]
    /\ reqTxOpen = [r \in Reqs |-> FALSE]
    /\ snapTxOpen = [r \in Reqs |-> FALSE]
    /\ txSnap = [r \in Reqs |-> EmptyDB]
    /\ txItems = [r \in Reqs |-> {}]
    /\ channels = [r \in Reqs |-> {}]
    /\ conn = [r \in Reqs |-> Nil]
    /\ result = [r \in Reqs |-> NoResult]
    /\ err = [r \in Reqs |-> "none"]
    /\ listened = [r \in Reqs |-> FALSE]
    /\ waited = [r \in Reqs |-> FALSE]
    /\ releases = [r \in Reqs |-> 0]
    /\ firstSnap = [r \in Reqs |-> NoResult]
    /\ clientIdx = [r \in Reqs |-> 1]

Mutate ==
    \/ \E s \in Subjects : CreateGrant(s)
    \/ \E s \in Subjects : DeleteGrant(s)
    \/ \E g \in Groups, u \in MemberUsers : AddMember(g, u)
    \/ \E g \in Groups, u \in MemberUsers : RemoveMember(g, u)

\* The steps of the handler and of the client that calls it.
Serve(r) ==
    \/ StartList(r)
    \/ StartLongPoll(r)
    \/ AuthorizeOK(r)
    \/ AuthorizeFail(r)
    \/ ListAllOK(r)
    \/ ListAllFail(r)
    \/ ListGrantsOK(r)
    \/ ListGrantsFail(r)
    \/ RollbackRequestTxnOK(r)
    \/ RollbackRequestTxnFail(r)
    \/ ListenForNotifyOK(r)
    \/ ListenForNotifyNoConn(r)
    \/ ListenForNotifyFail(r)
    \/ SnapshotItemsOK(r)
    \/ SnapshotMaxOK(r)
    \/ SnapshotFail(r)
    \/ WaitNotified(r)
    \/ WaitContextDone(r)
    \/ WaitFail(r)
    \/ ReleaseOK(r)
    \/ ReleaseUnlistenFail(r)
    \/ Respond(r)

Handle(r) ==
    \/ Serve(r)
    \/ CtxDeadline(r)
    \/ CtxCancel(r)

PollNext == Mutate \/ \E r \in Reqs : Handle(r)

\* Part II at rest while Part I runs.
KeyIdle ==
    /\ now = 0
    /\ key = [expiresAt |-> 0, inactivityTimeout |-> 0, inactivityExtension |-> 0]
    /\ lastSeenAt = 0
    /\ apc = [a \in {} |-> "idle"]
    /\ loaded = [a \in {} |-> 0]
    /\ validatedAt = [a \in {} |-> 0]
    /\ status = [a \in {} |-> 0]
    /\ writeLog = <<>>

\* No request is in the authentication pipeline.
AuthIdle ==
    /\ httpReq = Nil
    /\ mwpc = "idle"
    /\ bearer = <<>>
    /\ hostOrg = Nil
    /\ accessKey = Nil
    /\ authned = Nil
    /\ resp = Nil

\* No bootstrap runs.
BootIdle ==
    /\ config = Nil
    /\ store = Nil
    /\ bootTx = Nil
    /\ inTx = FALSE
    /\ defaultOrg = Nil
    /\ bootPc = "idle"
    /\ userIdx = 0
    /\ keysLeft = {}
    /\ bootTime = 0
    /\ runs = 0
    /\ bootErr = Nil
    /\ storeAtStart = Nil
    /\ afterLoad = Nil

\* The registry is not being built.
RegIdle ==
    /\ secretsCfg = <<>>
    /\ keysCfg = <<>>
    /\ k8sHost = FALSE
    /\ storage = Nil
    /\ keys = Nil
    /\ regPc = "idle"
    /\ regIdx = 0
    /\ regErr = Nil
    /\ resolved = {}

\* No password is being checked.
PwIdle ==
    /\ pwUser = <<>>
    /\ pwPassword = <<>>
    /\ pwPc = "idle"
    /\ pwResult = Nil

\* No credential request is served.
CredIdle ==
    /\ credDb = Nil
    /\ credAuth = Nil
    /\ credReq = Nil
    /\ credResp = Nil
    /\ credPc = "idle"

Init == PollInit /\ KeyIdle /\ AuthIdle /\ BootIdle /\ RegIdle /\ PwIdle /\ CredIdle

Next == PollNext /\ UNCHANGED <<keyVars, authVars, bootVars, regVars, pwVars, credVars>>

Spec == Init /\ [][Next]_vars

\* The deadline of a call that has blocked passes.
BlockedDeadline(r) == pc[r] = "wait" /\ CtxDeadline(r)

\* A step of a call that is running (not blocked in WaitForNotification).
Running(r) ==
    \/ AuthorizeOK(r) \/ AuthorizeFail(r)
    \/ ListAllOK(r) \/ ListAllFail(r)
    \/ ListGrantsOK(r) \/ ListGrantsFail(r)
    \/ RollbackRequestTxnOK(r) \/ RollbackRequestTxnFail(r)
    \/ ListenForNotifyOK(r) \/ ListenForNotifyNoConn(r) \/ ListenForNotifyFail(r)
    \/ SnapshotItemsOK(r) \/ SnapshotMaxOK(r) \/ SnapshotFail(r)
    \/ WaitContextDone(r)
    \/ ReleaseOK(r) \/ ReleaseUnlistenFail(r)
    \/ Respond(r)

\* A long-poll of the client has been served: it got through to a response
\* or to not-modified.
LongPollServed(r) ==
    pc[r] = "done" /\ last[r] # 0 /\ err[r] \in {"none", "notModified"}

\* Scheduling: a running call takes its next step, a blocked call meets its
\* deadline, and the client's long-polls keep being served (the failures of
\* single steps, which each call can meet, do not go on forever).
PollFairness ==
    \A r \in Reqs :
        /\ WF_pollVars(Running(r))
        /\ WF_pollVars(BlockedDeadline(r))
        /\ []<>LongPollServed(r)

\* The patient client: it never cancels a call, and the request deadline is
\* long enough for the steps that do not block, so that it passes only
\* while the call is blocked.
LiveNext ==
    /\ Mutate \/ \E r \in Reqs : (Serve(r) \/ BlockedDeadline(r))
    /\ UNCHANGED <<keyVars, authVars, bootVars, regVars, pwVars, credVars>>

LiveSpec == Init /\ [][LiveNext]_vars /\ PollFairness

\* ---------------------------------------------------------------- claims

\* A database state the response of r describes as a whole.
DescribesCommittedState(res) ==
    \E d \in committed :
        /\ res.items = DestinationAccessItems(d)
        /\ res.index = DestinationAccessMaxUpdateIndex(d)

\* C1: once the committed max update index of the destination has reached
\* k (a mutation with index k has committed), a client that keeps
\* long-polling with the index it holds eventually receives a response whose
\* lastUpdateIndex is at least k, i.e. greater than the max index before
\* that mutation.
C1_LongPollCatchesUp ==
    \A r \in Reqs : \A k \in 2..MaxSeq :
        (DestinationAccessMaxUpdateIndex(db) >= k) ~> (clientIdx[r] >= k)

\* A blocked long-poll was woken and returned an index new to the client.
C1_Witness ==
    \E r \in Reqs :
        /\ pc[r] = "done" /\ waited[r] /\ err[r] = "none"
        /\ result[r].index > last[r] /\ result[r].index >= 2

\* C2: a call with lastUpdateIndex 0 never registers a listener and never
\* waits for a notification; when it succeeds it returns the access list of
\* a committed database state.
C2_ZeroIndexNeverBlocks ==
    \A r \in Reqs : (pc[r] # "idle" /\ last[r] = 0) =>
        /\ pc[r] \in {"authorize", "listAll", "done"}
        /\ ~listened[r] /\ ~waited[r] /\ conn[r] = Nil
        /\ \A c \in Conns : connOwner[c] # r
        /\ (pc[r] = "done" /\ err[r] = "none") =>
              /\ result[r].present
              /\ \E d \in committed : result[r].items = DestinationAccessItems(d)

\* A call with lastUpdateIndex 0 returned a non-empty list while the server's
\* update index was above 0.
C2_Witness ==
    \E r \in Reqs :
        /\ pc[r] = "done" /\ last[r] = 0 /\ err[r] = "none"
        /\ result[r].items # {} /\ seq > 0

\* C3: a successful call with lastUpdateIndex 0 returns, with the snapshot,
\* the server's max update index for the destination.
C3_ZeroIndexReturnsMaxIndex ==
    \A r \in Reqs : (pc[r] = "done" /\ last[r] = 0 /\ err[r] = "none") =>
        DescribesCommittedState(result[r])

\* C4: items and lastUpdateIndex of a response built by
\* listDestinationAccessWithMaxUpdateIndex describe one committed database
\* state, whatever commits between its two reads.
C4_SnapshotConsistent ==
    \A r \in Reqs : (last[r] # 0 /\ result[r].present) =>
        DescribesCommittedState(result[r])

\* A mutation committed between the two reads of a snapshot transaction.
C4_Witness ==
    \E r \in Reqs : pc[r] = "snapMax" /\ snapTxOpen[r] /\ txSnap[r] # db

\* C5: once ListenForNotify has succeeded the call releases the listener
\* exactly once before it returns, on every exit path; the release does not
\* wait for the request context; with no call in flight every connection is
\* in the pool.
C5_ListenerReleasedOnce ==
    /\ \A r \in Reqs :
        /\ releases[r] <= 1
        /\ (pc[r] = "done" /\ listened[r]) => releases[r] = 1
        /\ (pc[r] \in {"idle", "done"}) => (conn[r] = Nil /\ \A c \in Conns : connOwner[c] # r)
        /\ (pc[r] = "release") => ENABLED ReleaseOK(r)
    /\ (\A r \in Reqs : pc[r] \in {"idle", "done"}) => \A c \in Conns : connOwner[c] = "pool"

\* A call that ended not-modified after the deadline has released its listener.
C5_Witness ==
    \E r \in Reqs :
        /\ pc[r] = "done" /\ listened[r] /\ ctx[r] = "deadline"
        /\ err[r] = "notModified" /\ releases[r] = 1

\* C6: a first snapshot newer than the request's index is returned at once,
\* without waiting; the call waits only when maxIndex <= lastUpdateIndex.
C6_WaitsOnlyWhenNotNewer ==
    \A r \in Reqs :
        /\ (pc[r] = "wait" \/ waited[r]) =>
              (firstSnap[r].present /\ firstSnap[r].index <= last[r])
        /\ (firstSnap[r].present /\ firstSnap[r].index > last[r]) =>
              /\ pc[r] \in {"release", "done"}
              /\ ~waited[r]
              /\ result[r] = firstSnap[r] /\ err[r] = "none"

\* A first snapshot that was newer than the request's index was returned.
C6_Witness ==
    \E r \in Reqs :
        /\ pc[r] = "done" /\ firstSnap[r].present
        /\ firstSnap[r].index > last[r] /\ ~waited[r]

\* A wait that ends on the request deadline returns the sentinel with the
\* snapshot computed before waiting.
DeadlineGivesNotModified ==
    \A r \in Reqs : (WaitContextDone(r) /\ ctx[r] = "deadline") =>
        (err'[r] = "notModified" /\ result'[r] = firstSnap[r])

\* Not-modified is returned only after waiting, on the deadline, with the
\* first snapshot, whose index was not above the request's.
NotModifiedOnlyWhenUnchanged ==
    \A r \in Reqs : (err[r] = "notModified") =>
        /\ waited[r] /\ ctx[r] = "deadline"
        /\ result[r].present /\ result[r] = firstSnap[r]
        /\ result[r].index <= last[r]

\* C7: a blocked call that meets the request deadline ends not-modified
\* with the unchanged snapshot; not-modified is never returned for a
\* snapshot whose maxIndex is above the request's lastUpdateIndex.
C7_DeadlineNotModified ==
    /\ []NotModifiedOnlyWhenUnchanged
    /\ [][DeadlineGivesNotModified]_vars

\* A call returned not-modified while the store had moved on since its snapshot.
C7_Witness ==
    \E r \in Reqs :
        /\ pc[r] = "done" /\ err[r] = "notModified"
        /\ result[r].index <= last[r]

\* C8: a call blocked in WaitForNotification holds no open transaction; the
\* listener connection is the only connection it holds.
C8_NoTransactionWhileBlocked ==
    \A r \in Reqs : (pc[r] = "wait") =>
        /\ ~reqTxOpen[r]
        /\ ~snapTxOpen[r]
        /\ conn[r] # Nil /\ connOwner[conn[r]] = r

\* A call is blocked in WaitForNotification with nothing to wake it yet.
C8_Witness ==
    \E r \in Reqs : pc[r] = "wait" /\ connPending[conn[r]] = 0 /\ ctx[r] = "live"

\* ========================================================================
\* Part II: access-key validation and the throttled activity update
\* ========================================================================

\* Concurrent authenticated requests presenting the same access key.
AuthReqs == {"a1", "a2"}

\* The throttle window of the last_seen_at / inactivity_timeout update.
ThrottleWindow == 2

\* inactivity_extension of the keys considered; 0: the key has no
\* inactivity timeout.
Extensions == {0, 2, 3}

\* The zero inactivity_timeout of a key that has none.
NoTimeout == 0

\* The time at which the keys considered are created.
KeyCreatedAt == 0

\* expires_at of the keys considered (the key is created at time 0).
Lifetimes == {3, 6}

\* A time further in the past than the throttle window.
LongAgo == 0 - ThrottleWindow

\* inactivity_timeout is set.
TimeoutSet(k) == k.inactivityTimeout # NoTimeout

\* Variant: only the inactivity timeout is checked.
KeyValidAt_IgnoresExpiry(k, t) == TimeoutSet(k) => t < k.inactivityTimeout

\* Validate: the key is accepted at time t iff it has not reached its
\* absolute expiry nor, if set, its inactivity timeout.
KeyValidAt(k, t) ==
    /\ t < k.expiresAt
    /\ TimeoutSet(k) => t < k.inactivityTimeout

\* Variant: the extension is not added.
NewInactivityTimeout_NoExtension(k, t) == t

\* TouchActivity: inactivity_timeout = now + inactivity_extension.
NewInactivityTimeout(k, t) == t + k.inactivityExtension

\* Variant: the update is never skipped.
Throttled_Never(stored, t) == FALSE

\* Variant: the stored value is within the window only at the same instant.
Throttled_SameInstant(stored, t) == t - stored <= 0

\* TouchActivity is throttled: the stored value is within the throttle
\* window of now.
Throttled(stored, t) == t - stored < ThrottleWindow

\* Variant: the check uses the Identity row as Validate loaded it.
ThrottleReference_Loaded(a) == loaded[a]

\* The value the throttle guard compares with now: the stored last_seen_at,
\* read under the guard.
ThrottleReference(a) == lastSeenAt

\* Validate(bearer) accepts the key and returns the key and identity rows.
ValidateOK(a) ==
    /\ apc[a] = "idle"
    /\ KeyValidAt(key, now)
    /\ apc' = [apc EXCEPT ![a] = "touch"]
    /\ loaded' = [loaded EXCEPT ![a] = lastSeenAt]
    /\ validatedAt' = [validatedAt EXCEPT ![a] = now]
    /\ status' = [status EXCEPT ![a] = 0]
    /\ UNCHANGED <<now, key, lastSeenAt, writeLog>>

\* Validate(bearer) rejects the key: access key has expired (401).
ValidateExpired(a) ==
    /\ apc[a] = "idle"
    /\ ~KeyValidAt(key, now)
    /\ apc' = [apc EXCEPT ![a] = "done"]
    /\ validatedAt' = [validatedAt EXCEPT ![a] = now]
    /\ status' = [status EXCEPT ![a] = 401]
    /\ UNCHANGED <<now, key, lastSeenAt, loaded, writeLog>>

\* TouchActivity(AccessKey, Identity) under the throttle guard, with now the
\* clock reading of the request: skipped when throttled, else last_seen_at =
\* now and, for a key with an inactivity timeout, inactivity_timeout = now +
\* inactivity_extension. The request is authenticated either way.
TouchActivity(a) ==
    /\ apc[a] = "touch"
    /\ IF Throttled(ThrottleReference(a), validatedAt[a])
       THEN UNCHANGED <<lastSeenAt, key, writeLog>>
       ELSE /\ lastSeenAt' = validatedAt[a]
            /\ key' = IF TimeoutSet(key)
                      THEN [key EXCEPT !.inactivityTimeout =
                                          NewInactivityTimeout(key, validatedAt[a])]
                      ELSE key
            /\ writeLog' = Append(writeLog, validatedAt[a])
    /\ apc' = [apc EXCEPT ![a] = "done"]
    /\ status' = [status EXCEPT ![a] = 200]
    /\ UNCHANGED <<now, loaded, validatedAt>>

\* The response is sent.
Complete(a) ==
    /\ apc[a] = "done"
    /\ apc' = [apc EXCEPT ![a] = "idle"]
    /\ status' = [status EXCEPT ![a] = 0]
    /\ loaded' = [loaded EXCEPT ![a] = 0]
    /\ validatedAt' = [validatedAt EXCEPT ![a] = 0]
    /\ UNCHANGED <<now, key, lastSeenAt, writeLog>>

\* Time passes.
Tick ==
    /\ now < MaxTime
    /\ now' = now + 1
    /\ UNCHANGED <<key, lastSeenAt, apc, loaded, validatedAt, status, writeLog>>

\* A key just created for an identity that was either seen just now or
\* long ago.
KeyInit ==
    /\ now = KeyCreatedAt
    /\ \E e \in Lifetimes, x \in Extensions :
         key = [expiresAt |-> e, inactivityTimeout |-> x, inactivityExtension |-> x]
    /\ lastSeenAt \in {LongAgo, 0}
    /\ apc = [a \in AuthReqs |-> "idle"]
    /\ loaded = [a \in AuthReqs |-> 0]
    /\ validatedAt = [a \in AuthReqs |-> 0]
    /\ status = [a \in AuthReqs |-> 0]
    /\ writeLog = <<>>

KeyNext ==
    \/ Tick
    \/ \E a \in AuthReqs : ValidateOK(a)
    \/ \E a \in AuthReqs : ValidateExpired(a)
    \/ \E a \in AuthReqs : TouchActivity(a)
    \/ \E a \in AuthReqs : Complete(a)

\* No long-poll is in flight while the middleware is exercised.
KeyStart == PollInit /\ KeyInit /\ AuthIdle /\ BootIdle /\ RegIdle /\ PwIdle /\ CredIdle

KeyStep == KeyNext /\ UNCHANGED <<pollVars, authVars, bootVars, regVars, pwVars, credVars>>

KeySpec == KeyStart /\ [][KeyStep]_vars

\* A request completes its TouchActivity step.
Touches(a) == apc[a] = "touch" /\ apc'[a] = "done"

\* Consecutive writes of last_seen_at are at least a throttle window apart.
WritesOneWindowApart ==
    \A i \in 1..(Len(writeLog) - 1) : writeLog[i + 1] - writeLog[i] >= ThrottleWindow

\* A request that presents the key while it is valid is authenticated,
\* whether or not its activity update is skipped.
ValidKeyAuthenticates ==
    \A a \in AuthReqs :
        /\ (apc[a] = "idle" /\ apc'[a] # "idle" /\ now < key.expiresAt
              /\ now < key.inactivityTimeout) => apc'[a] = "touch"
        /\ Touches(a) => status'[a] = 200

\* C9: for concurrent requests presenting the same access key, at most one
\* write of last_seen_at (and inactivity_timeout) happens per throttle
\* window, and every request presenting the valid key is authenticated.
C9_OneWritePerWindow ==
    /\ []WritesOneWindowApart
    /\ [][ValidKeyAuthenticates]_vars

\* Two requests validated at the same time have both been authenticated
\* with a single write.
C9_Witness ==
    /\ \A a \in AuthReqs : apc[a] = "done" /\ status[a] = 200
    /\ \A a, b \in AuthReqs : validatedAt[a] = validatedAt[b]
    /\ Len(writeLog) = 1

C11_TimeoutWithinExpiry ==
    /\ key.inactivityTimeout <= key.expiresAt
    /\ key.expiresAt > KeyCreatedAt

\* C12: last_seen_at never decreases, whatever the interleaving of the
\* requests' clock readings and guarded writes.
C12_LastSeenMonotonic ==
    [][lastSeenAt' >= lastSeenAt]_vars

\* A request with an older clock reading has completed after a request with
\* a newer one wrote last_seen_at.
C12_Witness ==
    \E a \in AuthReqs :
        /\ apc[a] = "done" /\ status[a] = 200
        /\ Len(writeLog) >= 1
        /\ lastSeenAt = writeLog[Len(writeLog)]
        /\ validatedAt[a] < lastSeenAt

\* C13: every TouchActivity, skipped or not, leaves inactivity_timeout
\* greater than or equal to its value before the call.
C13_TimeoutMonotonic ==
    [][\A a \in AuthReqs : Touches(a) =>
          key'.inactivityTimeout >= key.inactivityTimeout]_vars

\* The timeout has been extended by one call and left alone by a later,
\* throttled one.
C13_Witness ==
    /\ TimeoutSet(key)
    /\ key.inactivityTimeout > KeyCreatedAt + key.inactivityExtension
    /\ \E a \in AuthReqs :
         /\ apc[a] = "done" /\ status[a] = 200
         /\ validatedAt[a] > lastSeenAt

\* C14: Validate accepts the key only if now < expires_at and, when
\* inactivity_timeout is set, now < inactivity_timeout; otherwise the request
\* is rejected as expired and is not authenticated.
C14_ExpiredKeyRejected ==
    [][\A a \in AuthReqs :
        (apc[a] = "idle" /\ apc'[a] # "idle") =>
            IF now < key.expiresAt
               /\ (key.inactivityTimeout # NoTimeout => now < key.inactivityTimeout)
            THEN apc'[a] = "touch"
            ELSE apc'[a] = "done" /\ status'[a] = 401]_vars

\* A request presenting the key after its expires_at has been rejected,
\* while the inactivity timeout had not passed.
C14_Witness ==
    \E a \in AuthReqs :
        /\ apc[a] = "done" /\ status[a] = 401
        /\ validatedAt[a] >= key.expiresAt
        /\ TimeoutSet(key) => validatedAt[a] < key.inactivityTimeout


\* ========================================================================
\* Part III: the authentication middleware
\* ========================================================================

\* Strings are sequences of parts; "." and " " are parts of their own.
EmptyString == <<>>

\* strings.Cut(s, "."): the parts before and after the first ".".
FirstDot(str) ==
    IF \E i \in 1..Len(str) : str[i] = "."
    THEN CHOOSE i \in 1..Len(str) : str[i] = "." /\ \A j \in 1..(i - 1) : str[j] # "."
    ELSE 0

Cut(str) ==
    IF FirstDot(str) = 0
    THEN [before |-> str, after |-> EmptyString, found |-> FALSE]
    ELSE [before |-> SubSeq(str, 1, FirstDot(str) - 1),
          after |-> SubSeq(str, FirstDot(str) + 1, Len(str)),
          found |-> TRUE]

\* Organizations and the hosts of the requests considered.
Orgs == {"org1", "org2"}
Hosts == {"org1.example.com", "org2.example.com", "localhost"}

\* The organization whose domain is the request host, if any.
OrgByHost(h) ==
    IF h = "org1.example.com" THEN "org1"
    ELSE IF h = "org2.example.com" THEN "org2"
    ELSE Nil

\* The identities of the database: u1 signed up through the infra provider,
\* u2 was created with an access key only, u3 belongs to the other
\* organization.
Identities == {"u1", "u2", "u3"}
ProviderUsers == {<<"infra", "u1">>, <<"infra", "u3">>}

\* The access keys of the database. kexp expired a minute ago; kscim is the
\* key of a provider; kx names a provider as issued_for under another
\* provider_id.
AccessKeyRows ==
    { [keyId |-> <<"k1">>, secret |-> <<"s1">>, org |-> "org1", issuedFor |-> "u1",
       providerId |-> "infra", expiresAt |-> 1, inactivityTimeout |-> NoTimeout],
      [keyId |-> <<"k2">>, secret |-> <<"s2">>, org |-> "org1", issuedFor |-> "u2",
       providerId |-> "infra", expiresAt |-> 1, inactivityTimeout |-> NoTimeout],
      [keyId |-> <<"k3">>, secret |-> <<"s3">>, org |-> "org2", issuedFor |-> "u3",
       providerId |-> "infra", expiresAt |-> 1, inactivityTimeout |-> NoTimeout],
      [keyId |-> <<"kexp">>, secret |-> <<"s4">>, org |-> "org1", issuedFor |-> "u1",
       providerId |-> "infra", expiresAt |-> -1, inactivityTimeout |-> NoTimeout],
      [keyId |-> <<"kscim">>, secret |-> <<"s5">>, org |-> "org1", issuedFor |-> "okta",
       providerId |-> "okta", expiresAt |-> 1, inactivityTimeout |-> NoTimeout],
      [keyId |-> <<"kx">>, secret |-> <<"s6">>, org |-> "org1", issuedFor |-> "okta",
       providerId |-> "p123", expiresAt |-> 1, inactivityTimeout |-> NoTimeout] }

\* The string handed out for a key: key_id + "." + secret.
KeyString(k) == k.keyId \o <<".">> \o k.secret

\* The credentials a request may carry in a cookie.
Credentials ==
    {EmptyString} \cup {KeyString(k) : k \in AccessKeyRows}
        \cup {<<"k1", ".", "wrong">>, <<"zz", ".", "s1">>, <<"nodot">>}

\* The Authorization headers considered: none, a single space, and Bearer
\* followed by a credential (possibly empty).
Headers ==
    {EmptyString, <<" ">>} \cup {<<"Bearer", " ">> \o c : c \in Credentials}

Requests ==
    [signup : Credentials, auth : Credentials, header : Headers, host : Hosts]

\* The token of an "Authorization: Bearer <tok>" header, else empty.
HeaderBearer(h) ==
    IF Len(h) >= 2 /\ h[1] = "Bearer" /\ h[2] = " " THEN SubSeq(h, 3, Len(h)) ELSE EmptyString

\* Variant: the Authorization header is preferred to the cookies.
ReqBearerToken_HeaderFirst(req) ==
    IF HeaderBearer(req.header) # EmptyString THEN HeaderBearer(req.header)
    ELSE IF req.auth # EmptyString THEN req.auth
    ELSE req.signup

\* The candidate bearer: signup cookie, then auth cookie, then header.
ReqBearerToken(req) ==
    IF req.signup # EmptyString THEN req.signup
    ELSE IF req.auth # EmptyString THEN req.auth
    ELSE HeaderBearer(req.header)

\* No access-key row.
NoKeyRow ==
    [keyId |-> EmptyString, secret |-> EmptyString, org |-> Nil, issuedFor |-> Nil,
     providerId |-> Nil, expiresAt |-> 0, inactivityTimeout |-> NoTimeout]

\* The row with the given key id, if any.
GetAccessKeyByKeyID(id) ==
    IF \E k \in AccessKeyRows : k.keyId = id
    THEN CHOOSE k \in AccessKeyRows : k.keyId = id
    ELSE NoKeyRow

NoValidation == [err |-> Nil, key |-> NoKeyRow, user |-> Nil]

\* Validate(bearer): the access key and the identity it was issued for, or
\* the error. The identity is looked up by issued_for alone.
ValidateBearer(b, t) ==
    IF ~Cut(b).found
    THEN [NoValidation EXCEPT !.err = "invalid access key format"]
    ELSE IF GetAccessKeyByKeyID(Cut(b).before) = NoKeyRow
    THEN [NoValidation EXCEPT !.err = "record not found"]
    ELSE IF GetAccessKeyByKeyID(Cut(b).before).secret # Cut(b).after
    THEN [NoValidation EXCEPT !.err = "access key invalid secret"]
    ELSE IF ~KeyValidAt(GetAccessKeyByKeyID(Cut(b).before), t)
    THEN [NoValidation EXCEPT !.err = "access key has expired"]
    ELSE IF GetAccessKeyByKeyID(Cut(b).before).issuedFor
              = GetAccessKeyByKeyID(Cut(b).before).providerId
    THEN [NoValidation EXCEPT !.key = GetAccessKeyByKeyID(Cut(b).before)]
    ELSE IF GetAccessKeyByKeyID(Cut(b).before).issuedFor \notin Identities
    THEN [NoValidation EXCEPT !.err = "identity for access key: record not found"]
    ELSE [NoValidation EXCEPT !.key = GetAccessKeyByKeyID(Cut(b).before),
                              !.user = GetAccessKeyByKeyID(Cut(b).before).issuedFor]

\* Variant: the organizations are never compared.
OrgConflicts_Never(h, k) == FALSE

\* The access key's organization differs from the host-derived one.
OrgConflicts(h, k) == h # Nil /\ k.org # h

NoAuth == [accessKey |-> EmptyString, user |-> Nil, organization |-> Nil]

NoResp == [status |-> 0, err |-> Nil]

Reject(code, e) ==
    /\ mwpc' = "done"
    /\ resp' = [status |-> code, err |-> e]
    /\ authned' = NoAuth

\* Step 1: a bearer is found.
CollectBearerOK ==
    /\ mwpc = "collect"
    /\ ReqBearerToken(httpReq) # EmptyString
    /\ bearer' = ReqBearerToken(httpReq)
    /\ mwpc' = "org"
    /\ UNCHANGED <<httpReq, hostOrg, accessKey, authned, resp>>

\* Step 1: no bearer: authentication is required.
CollectBearerMissing ==
    /\ mwpc = "collect"
    /\ ReqBearerToken(httpReq) = EmptyString
    /\ Reject(401, "authentication is required")
    /\ UNCHANGED <<httpReq, bearer, hostOrg, accessKey>>

\* Step 2: the organization of the request host, if it names one.
ResolveOrganization ==
    /\ mwpc = "org"
    /\ hostOrg' = OrgByHost(httpReq.host)
    /\ mwpc' = "validate"
    /\ UNCHANGED <<httpReq, bearer, accessKey, authned, resp>>

\* Step 3: the bearer is valid.
ValidateAccepted ==
    /\ mwpc = "validate"
    /\ ValidateBearer(bearer, now).err = Nil
    /\ accessKey' = ValidateBearer(bearer, now).key
    /\ authned' = [NoAuth EXCEPT !.user = ValidateBearer(bearer, now).user]
    /\ mwpc' = "orgcheck"
    /\ UNCHANGED <<httpReq, bearer, hostOrg, resp>>

\* Step 3: the bearer is rejected.
ValidateRejected ==
    /\ mwpc = "validate"
    /\ ValidateBearer(bearer, now).err # Nil
    /\ Reject(401, ValidateBearer(bearer, now).err)
    /\ UNCHANGED <<httpReq, bearer, hostOrg, accessKey>>

\* Step 3: the key belongs to another organization than the host.
OrgConflict ==
    /\ mwpc = "orgcheck"
    /\ OrgConflicts(hostOrg, accessKey)
    /\ Reject(400, "organization conflict")
    /\ UNCHANGED <<httpReq, bearer, hostOrg, accessKey>>

\* Step 4: the request context is attached; the organization is the key's.
Attach ==
    /\ mwpc = "orgcheck"
    /\ ~OrgConflicts(hostOrg, accessKey)
    /\ authned' = [accessKey |-> accessKey.keyId, user |-> authned.user,
                   organization |-> accessKey.org]
    /\ resp' = [status |-> 200, err |-> Nil]
    /\ mwpc' = "done"
    /\ UNCHANGED <<httpReq, bearer, hostOrg, accessKey>>

\* A request arrives at an authenticated route.
AuthInit ==
    /\ httpReq \in Requests
    /\ mwpc = "collect"
    /\ bearer = EmptyString
    /\ hostOrg = Nil
    /\ accessKey = NoKeyRow
    /\ authned = NoAuth
    /\ resp = NoResp

AuthNext ==
    \/ CollectBearerOK
    \/ CollectBearerMissing
    \/ ResolveOrganization
    \/ ValidateAccepted
    \/ ValidateRejected
    \/ OrgConflict
    \/ Attach

AuthStart == PollInit /\ KeyIdle /\ AuthInit /\ BootIdle /\ RegIdle /\ PwIdle /\ CredIdle

AuthStep == AuthNext /\ UNCHANGED <<pollVars, keyVars, bootVars, regVars, pwVars, credVars>>

AuthSpec == AuthStart /\ [][AuthStep]_vars

\* C15: the bearer used is the first non-empty of signup cookie, auth
\* cookie, Authorization Bearer header; a request with a valid signup cookie
\* is authenticated as the signup cookie's identity whatever else it carries.
C15_SignupCookieWins ==
    mwpc = "done" =>
        /\ httpReq.signup # <<>> => bearer = httpReq.signup
        /\ (httpReq.signup = <<>> /\ httpReq.auth # <<>>) => bearer = httpReq.auth
        /\ (httpReq.signup = <<>> /\ httpReq.auth = <<>> /\ resp.status # 401) =>
              httpReq.header = <<"Bearer", " ">> \o bearer
        /\ (httpReq.signup = <<"k1", ".", "s1">> /\ httpReq.host # "org2.example.com") =>
              (resp.status = 200 /\ authned.user = "u1")

\* A request with a valid signup cookie and two other valid credentials of
\* other identities has been authenticated.
C15_Witness ==
    /\ mwpc = "done"
    /\ httpReq.signup = <<"k1", ".", "s1">>
    /\ httpReq.auth = <<"k2", ".", "s2">>
    /\ httpReq.header = <<"Bearer", " ", "k3", ".", "s3">>
    /\ authned.user = "u1"

\* The organization of the valid keys presented.
OrgOfValidKey(c) ==
    IF c \in {<<"k1", ".", "s1">>, <<"k2", ".", "s2">>, <<"kscim", ".", "s5">>} THEN "org1"
    ELSE IF c = <<"k3", ".", "s3">> THEN "org2"
    ELSE Nil

\* C16: a valid key presented on the host of another organization is
\* rejected with 400 and nothing is authenticated.
C16_OrgConflictRejected ==
    (mwpc = "done" /\ OrgOfValidKey(bearer) # Nil /\ OrgByHost(httpReq.host) # Nil
       /\ OrgOfValidKey(bearer) # OrgByHost(httpReq.host)) =>
        /\ resp.status = 400
        /\ authned.user = Nil /\ authned.organization = Nil /\ authned.accessKey = <<>>

\* A valid key of org1 has been presented on the host of org2.
C16_Witness ==
    /\ mwpc = "done"
    /\ bearer = <<"k1", ".", "s1">>
    /\ httpReq.host = "org2.example.com"
    /\ resp.status = 400

\* C17: a key with provider_id = issued_for validates with no user; a key
\* with provider_id # issued_for validates only if issued_for is an identity
\* with a ProviderUser row for provider_id, and otherwise fails with
\* "identity for access key: record not found".
C17_ProviderUserRequired ==
    (mwpc \in {"orgcheck", "done"} /\ bearer \in {KeyString(k) : k \in AccessKeyRows}
       /\ bearer # <<"kexp", ".", "s4">>) =>
        LET k == CHOOSE k \in AccessKeyRows : KeyString(k) = bearer
            accepted == mwpc = "orgcheck" \/ resp.status \in {200, 400}
        IN IF k.providerId = k.issuedFor
           THEN accepted /\ (mwpc = "orgcheck" => authned.user = Nil)
           ELSE IF k.issuedFor \in Identities /\ <<k.providerId, k.issuedFor>> \in ProviderUsers
           THEN accepted
           ELSE ~accepted /\ resp.err = "identity for access key: record not found"


\* ========================================================================
\* Part IV: the bootstrap loader
\* ========================================================================

\* time.Now().AddDate(10, 0, 0)
TenYears == 10

\* The length of a generated API token secret.
GeneratedSecretLength == 36

\* models.TokenLength
TokenLength == 36

UserNames == {"alice", "bob", "carol"}
Roles == {"admin", "view"}
TokenNames == {"root", "engine"}
ScopeAllowCreateAccessKey == "allow-create-access-key"

\* The users a configuration may list: a full user, a user whose key id is
\* alice's, a user with a key of his own, a key without a dot, a password
\* whose secret reference cannot be resolved, a user without a name.
ConfigUsers ==
    { [name |-> "alice", password |-> <<"p1">>, accessKey |-> <<"K1", ".", "S1">>,
       infraRole |-> "admin"],
      [name |-> "bob", password |-> <<>>, accessKey |-> <<"K1", ".", "S2">>,
       infraRole |-> "view"],
      [name |-> "bob", password |-> <<"p2">>, accessKey |-> <<"K2", ".", "S2">>,
       infraRole |-> "view"],
      [name |-> "bob", password |-> <<>>, accessKey |-> <<"nodot">>, infraRole |-> ""],
      [name |-> "bob", password |-> <<"env:MISSING">>, accessKey |-> <<>>, infraRole |-> ""],
      [name |-> "", password |-> <<>>, accessKey |-> <<>>, infraRole |-> ""] }

UserLists == UNION {[1..n -> ConfigUsers] : n \in 1..MaxUsers}

\* The configured secrets of the root and engine API tokens (by length; 0:
\* empty, to be generated) and the configured provider domains.
LegacyConfigs ==
    { [tokens |-> [k \in TokenNames |-> 36], providers |-> {"okta.example.com"}],
      [tokens |-> [k \in TokenNames |-> 0], providers |-> {"okta.example.com"}],
      [tokens |-> [k \in TokenNames |-> IF k = "root" THEN 36 ELSE 35],
       providers |-> {"okta.example.com"}],
      [tokens |-> [k \in TokenNames |-> IF k = "root" THEN 35 ELSE 36],
       providers |-> {"okta.example.com"}],
      [tokens |-> [k \in TokenNames |-> 36], providers |-> {"okta.example.com", "not a domain"}],
      [tokens |-> [k \in TokenNames |-> 36], providers |-> {}] }

Configs ==
    { [domain |-> "new.example.com", users |-> us, tokens |-> l.tokens,
       providers |-> l.providers] : us \in UserLists, l \in LegacyConfigs }

\* The name of the built-in provider of local credentials.
InfraProviderName == "infra"

\* A database with the default organization only.
EmptyStore ==
    [domain |-> "old.example.com", identities |-> {}, providerUsers |-> {},
     credentials |-> {}, accessKeys |-> {},
     grants |-> [g \in UserNames \X Roles |-> 0],
     secrets |-> [k \in TokenNames |-> 0], apiTokens |-> {}, tokens |-> {},
     providers |-> {"old-idp.example.com", InfraProviderName}]

\* The key K1 as a login created it for the given identity: short-lived,
\* without scopes.
LoginKey(n) ==
    [keyId |-> <<"K1">>, secret |-> <<"S0">>, issuedFor |-> n, providerId |-> "infra",
     expiresAt |-> 1, scopes |-> {}]

\* The databases bootstrap may find: empty, alice already holding key K1,
\* carol holding key K1.
InitialStores ==
    { EmptyStore,
      [EmptyStore EXCEPT !.identities = {"alice"}, !.providerUsers = {<<"infra", "alice">>},
                         !.accessKeys = {LoginKey("alice")}],
      [EmptyStore EXCEPT !.identities = {"carol"}, !.providerUsers = {<<"infra", "carol">>},
                         !.accessKeys = {LoginKey("carol")}] }

\* validate.Validate(config): users must have a name.
ValidConfig(cfg) == \A i \in 1..Len(cfg.users) : cfg.users[i].name # ""

\* secrets.GetSecret: a plain value is its own secret; a reference that
\* cannot be resolved is an error.
GetSecret(ref) ==
    IF ref = <<"env:MISSING">> THEN [value |-> <<>>, err |-> "secret not found"]
    ELSE [value |-> ref, err |-> Nil]

\* data.CreateProviderUser under the infra provider: one row per identity.
CreateProviderUser(d, n) == [d EXCEPT !.providerUsers = @ \cup {<<"infra", n>>}]

\* Variant: the grant is never found.
GrantExists_Never(d, n, role) == FALSE

\* data.GetGrant by subject, resource infra and privilege finds a row.
GrantExists(d, n, role) == d.grants[<<n, role>>] > 0

loadGrant(d, n, role) ==
    IF role = "" THEN d
    ELSE IF GrantExists(d, n, role) THEN d
    ELSE [d EXCEPT !.grants[<<n, role>>] = @ + 1]

\* bcrypt with a fresh salt.
PasswordHash(pw, t) == [password |-> pw, salt |-> t]

loadCredential(d, n, password, t) ==
    IF password = <<>> THEN [db |-> d, err |-> Nil]
    ELSE IF GetSecret(password).err # Nil THEN [db |-> d, err |-> GetSecret(password).err]
    ELSE IF \E c \in d.credentials : c.identity = n
    THEN [db |-> [d EXCEPT !.credentials =
                     {c \in @ : c.identity # n}
                         \cup {[identity |-> n, hash |-> PasswordHash(GetSecret(password).value, t)]}],
          err |-> Nil]
    ELSE [db |-> CreateProviderUser(
                    [d EXCEPT !.credentials = @ \cup
                        {[identity |-> n, hash |-> PasswordHash(GetSecret(password).value, t)]}], n),
          err |-> Nil]

\* The stored key with the given key id, if any.
KeyRowExists(d, id) == \E k \in d.accessKeys : k.keyId = id
KeyRow(d, id) == CHOOSE k \in d.accessKeys : k.keyId = id

loadAccessKey(d, n, accessKeyString, t) ==
    IF accessKeyString = EmptyString THEN [db |-> d, err |-> Nil]
    ELSE IF GetSecret(accessKeyString).err # Nil THEN [db |-> d, err |-> GetSecret(accessKeyString).err]
    ELSE IF ~Cut(GetSecret(accessKeyString).value).found
    THEN [db |-> d, err |-> "invalid access key format"]
    ELSE IF ~KeyRowExists(d, Cut(accessKeyString).before)
    THEN [db |-> CreateProviderUser(
                    [d EXCEPT !.accessKeys = @ \cup
                        {[keyId |-> Cut(accessKeyString).before, secret |-> Cut(accessKeyString).after,
                          issuedFor |-> n, providerId |-> "infra",
                          expiresAt |-> t + TenYears,
                          scopes |-> {ScopeAllowCreateAccessKey}]}], n),
          err |-> Nil]
    ELSE IF KeyRow(d, Cut(accessKeyString).before).issuedFor # n
    THEN [db |-> d, err |-> "access key is already assigned to another user"]
    ELSE [db |-> [d EXCEPT !.accessKeys =
                     (@ \ {KeyRow(d, Cut(accessKeyString).before)})
                         \cup {[KeyRow(d, Cut(accessKeyString).before) EXCEPT !.secret = Cut(accessKeyString).after]}],
          err |-> Nil]

\* The identity is created, with its infra provider user, unless it exists.
EnsureIdentity(d, n) ==
    IF n \in d.identities THEN d
    ELSE CreateProviderUser([d EXCEPT !.identities = @ \cup {n}], n)

loadUser(d, u, t) ==
    LET withCredential == loadCredential(EnsureIdentity(d, u.name), u.name, u.password, t)
        withKey == loadAccessKey(withCredential.db, u.name, u.accessKey, t)
    IN IF withCredential.err # Nil THEN withCredential
       ELSE IF withKey.err # Nil THEN withKey
       ELSE [db |-> loadGrant(withKey.db, u.name, u.infraRole), err |-> Nil]

\* What loadConfig reconciles, up to password hashes and timestamps.
LoadedView(d) ==
    [identities |-> d.identities, providerUsers |-> d.providerUsers,
     credentials |-> {c.identity : c \in d.credentials},
     accessKeys |-> {[keyId |-> k.keyId, secret |-> k.secret, issuedFor |-> k.issuedFor,
                      scopes |-> k.scopes] : k \in d.accessKeys},
     grants |-> d.grants]

\* The tables of the database (the secret storage is not one of them).
Tables(d) == [d EXCEPT !.secrets = [k \in TokenNames |-> 0]]

\* A bootstrap run starts.
StartRun ==
    /\ bootPc = "idle"
    /\ runs < MaxRuns
    /\ runs' = runs + 1
    /\ bootTime' = bootTime + 1
    /\ storeAtStart' = store
    /\ bootErr' = Nil
    /\ bootPc' = "loadConfig"
    /\ UNCHANGED <<config, store, bootTx, inTx, defaultOrg, userIdx, keysLeft, afterLoad>>

\* loadConfig: the configuration is invalid.
LoadConfigInvalid ==
    /\ bootPc = "loadConfig"
    /\ ~ValidConfig(config)
    /\ bootErr' = "validation failed"
    /\ bootPc' = "failed"
    /\ UNCHANGED <<config, store, bootTx, inTx, defaultOrg, userIdx, keysLeft, bootTime,
                   runs, storeAtStart, afterLoad>>

\* loadConfig: the transaction begins and the default organization's domain
\* is updated, in memory and in the transaction, if it differs.
LoadConfigBegin ==
    /\ bootPc = "loadConfig"
    /\ ValidConfig(config)
    /\ inTx' = TRUE
    /\ defaultOrg' = config.domain
    /\ bootTx' = IF config.domain # defaultOrg
                 THEN [store EXCEPT !.domain = config.domain]
                 ELSE store
    /\ userIdx' = 1
    /\ bootPc' = "users"
    /\ UNCHANGED <<config, store, keysLeft, bootTime, runs, bootErr, storeAtStart, afterLoad>>

\* loadConfig: the next user is loaded.
LoadUserOK ==
    /\ bootPc = "users"
    /\ userIdx <= Len(config.users)
    /\ loadUser(bootTx, config.users[userIdx], bootTime).err = Nil
    /\ bootTx' = loadUser(bootTx, config.users[userIdx], bootTime).db
    /\ userIdx' = userIdx + 1
    /\ UNCHANGED <<config, store, inTx, defaultOrg, bootPc, keysLeft, bootTime, runs,
                   bootErr, storeAtStart, afterLoad>>

\* loadConfig: loading a user fails; the deferred rollback drops the
\* transaction.
LoadUserFail ==
    /\ bootPc = "users"
    /\ userIdx <= Len(config.users)
    /\ loadUser(bootTx, config.users[userIdx], bootTime).err # Nil
    /\ bootErr' = loadUser(bootTx, config.users[userIdx], bootTime).err
    /\ inTx' = FALSE
    /\ bootTx' = store
    /\ bootPc' = "failed"
    /\ UNCHANGED <<config, store, defaultOrg, userIdx, keysLeft, bootTime, runs,
                   storeAtStart, afterLoad>>

\* loadConfig: tx.Commit().
LoadConfigCommit ==
    /\ bootPc = "users"
    /\ userIdx > Len(config.users)
    /\ store' = bootTx
    /\ inTx' = FALSE
    /\ afterLoad' = [present |-> TRUE, view |-> LoadedView(bootTx)]
    /\ keysLeft' = TokenNames
    /\ bootPc' = "tokens"
    /\ UNCHANGED <<config, bootTx, defaultOrg, userIdx, bootTime, runs, bootErr, storeAtStart>>

\* The secret of an API token: the configured one, else the stored one,
\* else a generated one.
TokenSecret(k) ==
    IF config.tokens[k] # 0 THEN config.tokens[k]
    ELSE IF store.secrets[k] # 0 THEN store.secrets[k]
    ELSE GeneratedSecretLength

\* importAPITokens: one of the tokens, in map order, is written to the
\* database; there is no transaction.
ImportAPITokenOK(k) ==
    /\ bootPc = "tokens"
    /\ k \in keysLeft
    /\ TokenSecret(k) = TokenLength
    /\ store' = [store EXCEPT !.secrets[k] = TokenSecret(k),
                              !.apiTokens = @ \cup {k},
                              !.tokens = {tk \in @ : tk.apiToken # k}
                                            \cup {[apiToken |-> k, secret |-> TokenSecret(k)]}]
    /\ keysLeft' = keysLeft \ {k}
    /\ bootPc' = IF keysLeft = {k} THEN "providers" ELSE "tokens"
    /\ UNCHANGED <<config, bootTx, inTx, defaultOrg, userIdx, bootTime, runs, bootErr,
                   storeAtStart, afterLoad>>

\* importAPITokens: the secret has the wrong length.
ImportAPITokenFail(k) ==
    /\ bootPc = "tokens"
    /\ k \in keysLeft
    /\ TokenSecret(k) # TokenLength
    /\ bootErr' = "secret for token has the wrong length"
    /\ bootPc' = "failed"
    /\ UNCHANGED <<config, store, bootTx, inTx, defaultOrg, userIdx, keysLeft, bootTime,
                   runs, storeAtStart, afterLoad>>

\* A provider domain passes validation.
ValidDomain(dom) == dom # "not a domain"

\* The selections of Not(toKeep) among the stored providers: the rows whose
\* id is not in toKeep; for an empty toKeep the query library either drops
\* the condition (every row) or compares with an empty list (no row).
NotToKeep(stored, toKeep) ==
    IF toKeep = {} THEN {stored, {}} ELSE {stored \ toKeep}

\* importProviders: every configured provider is created or updated and
\* kept, the providers selected by Not(toKeep) are deleted.
importProviders(d, providers, deleted) ==
    [d EXCEPT !.providers = (d.providers \cup providers) \ deleted]

\* importConfig: the providers are upserted and the others deleted, in one
\* transaction.
ImportConfigOK ==
    /\ bootPc = "providers"
    /\ \A dom \in config.providers : ValidDomain(dom)
    /\ \E deleted \in NotToKeep(store.providers \cup config.providers, config.providers) :
          store' = importProviders(store, config.providers, deleted)
    /\ bootPc' = "done"
    /\ UNCHANGED <<config, bootTx, inTx, defaultOrg, userIdx, keysLeft, bootTime, runs,
                   bootErr, storeAtStart, afterLoad>>

\* importConfig: a provider is invalid; the transaction is rolled back.
ImportConfigFail ==
    /\ bootPc = "providers"
    /\ \E dom \in config.providers : ~ValidDomain(dom)
    /\ bootErr' = "providers: invalid domain"
    /\ bootPc' = "failed"
    /\ UNCHANGED <<config, store, bootTx, inTx, defaultOrg, userIdx, keysLeft, bootTime,
                   runs, storeAtStart, afterLoad>>

\* The process exits; it may be started again.
FinishRun ==
    /\ bootPc \in {"done", "failed"}
    /\ bootPc' = "idle"
    /\ UNCHANGED <<config, store, bootTx, inTx, defaultOrg, userIdx, keysLeft, bootTime,
                   runs, bootErr, storeAtStart, afterLoad>>

BootInit ==
    /\ config \in Configs
    /\ store \in InitialStores
    /\ bootTx = store
    /\ inTx = FALSE
    /\ defaultOrg = store.domain
    /\ bootPc = "idle"
    /\ userIdx = 0
    /\ keysLeft = {}
    /\ bootTime = 0
    /\ runs = 0
    /\ bootErr = Nil
    /\ storeAtStart = store
    /\ afterLoad = [present |-> FALSE, view |-> LoadedView(store)]

BootNext ==
    \/ StartRun
    \/ LoadConfigInvalid
    \/ LoadConfigBegin
    \/ LoadUserOK
    \/ LoadUserFail
    \/ LoadConfigCommit
    \/ \E k \in TokenNames : ImportAPITokenOK(k)
    \/ \E k \in TokenNames : ImportAPITokenFail(k)
    \/ ImportConfigOK
    \/ ImportConfigFail
    \/ FinishRun

BootStart == PollInit /\ KeyIdle /\ AuthIdle /\ BootInit /\ RegIdle /\ PwIdle /\ CredIdle

BootStep == BootNext /\ UNCHANGED <<pollVars, keyVars, authVars, regVars, pwVars, credVars>>

BootSpec == BootStart /\ [][BootStep]_vars

\* C18: when a bootstrap run fails, nothing it changed is persisted.
C18_BootstrapAtomic ==
    bootPc = "failed" => Tables(store) = Tables(storeAtStart)

\* Every grant, credential and key id is stored once.
NoDuplicateRows(d) ==
    /\ \A g \in UserNames \X Roles : d.grants[g] <= 1
    /\ \A c1, c2 \in d.credentials : c1.identity = c2.identity => c1 = c2
    /\ \A k1, k2 \in d.accessKeys : k1.keyId = k2.keyId => k1 = k2

\* C19: loadConfig run again with the same configuration succeeds and leaves
\* the same identities, provider users, credentials, access keys and grants,
\* without duplicates.
C19_LoadConfigIdempotent ==
    [][(afterLoad.present /\ bootPc = "users") =>
          /\ bootPc' # "failed"
          /\ bootPc' = "tokens" =>
                (LoadedView(store') = afterLoad.view /\ NoDuplicateRows(store'))]_vars

\* loadConfig has committed for the second time a configuration of two
\* users with passwords, keys and roles.
C19_Witness ==
    /\ runs = 2
    /\ bootPc = "tokens"
    /\ store.identities = {"alice", "bob"}
    /\ Cardinality(store.accessKeys) = 2
    /\ Cardinality(store.credentials) = 2
    /\ store.grants[<<"alice", "admin">>] = 1 /\ store.grants[<<"bob", "view">>] = 1

\* C20: after loadConfig succeeds, the key of every configured 'K.S' is
\* issued for the user, has secret S, expires ten years after the run and
\* carries allow-create-access-key, whether it was created or already
\* existed; a configured key without '.' makes the run fail.
C20_ConfiguredKeyStored ==
    (bootPc = "tokens" /\ keysLeft = {"root", "engine"}) =>
        \A i \in 1..Len(config.users) :
            LET u == config.users[i] IN
            /\ u.accessKey # <<>> => \E j \in 1..Len(u.accessKey) : u.accessKey[j] = "."
            /\ u.accessKey # <<>> =>
                 \E k \in store.accessKeys :
                    /\ k.keyId = <<u.accessKey[1]>>
                    /\ k.secret = <<u.accessKey[3]>>
                    /\ k.issuedFor = u.name
                    /\ k.expiresAt = bootTime + 10
                    /\ "allow-create-access-key" \in k.scopes

\* C21: after importConfig succeeds, the stored providers are the configured
\* ones and the built-in infra provider: every other provider is deleted
\* and infra is kept, also with an empty list.
C21_ProvidersReconciled ==
    bootPc = "done" => store.providers = config.providers \cup {InfraProviderName}

\* ===================================================================
\* Part V: the secret and key provider registry
\* ===================================================================

\* A credential field that holds a plain value, not a 'name:path' reference.
NoRef == "plain"

\* The kinds of storage provider that do not depend on another one.
baseSecretStorageKinds == {"env", "file", "plaintext", "kubernetes"}

isABaseSecretStorageKind(kind) == kind \in baseSecretStorageKinds

\* The kinds of storage provider whose credentials may be references.
ReferencingKinds == {"vault", "awsssm", "awssecretsmanager"}

\* The kinds loadSecretConfig knows; the empty kind is plaintext.
SecretKinds == baseSecretStorageKinds \cup ReferencingKinds \cup {""}

\* The kinds of key provider importKeyProviders handles.
KeyKinds == {"native", "awskms", "vault"}

\* Storage provider entries of a configuration: kind, name, and the
\* provider its credential fields refer to.
SecretEntries ==
    { [kind |-> "env", name |-> "", ref |-> NoRef],
      [kind |-> "file", name |-> "f1", ref |-> NoRef],
      [kind |-> "plaintext", name |-> "vault", ref |-> NoRef],
      [kind |-> "vault", name |-> "", ref |-> "env"],
      [kind |-> "vault", name |-> "file", ref |-> NoRef],
      [kind |-> "awsssm", name |-> "", ref |-> "vault"],
      [kind |-> "awssecretsmanager", name |-> "", ref |-> "kubernetes"],
      [kind |-> "", name |-> "", ref |-> NoRef],
      [kind |-> "bogus", name |-> "", ref |-> NoRef] }

SecretConfigs == UNION {[1..n -> SecretEntries] : n \in 1..MaxEntries}

\* Key provider entries: kind, the storage of a native provider, and the
\* provider the credential fields of the others refer to.
KeyEntries ==
    { [kind |-> "native", secretProvider |-> "f1", ref |-> NoRef],
      [kind |-> "native", secretProvider |-> "nope", ref |-> NoRef],
      [kind |-> "awskms", secretProvider |-> "", ref |-> "env"],
      [kind |-> "vault", secretProvider |-> "", ref |-> "kubernetes"],
      [kind |-> "bogus", secretProvider |-> "", ref |-> NoRef] }

KeyConfigs == UNION {[1..n -> KeyEntries] : n \in 1..MaxEntries}

\* The names a storage provider can be registered under.
StorageNames ==
    baseSecretStorageKinds \cup {e.kind : e \in SecretEntries}
        \cup {e.name : e \in SecretEntries}

\* No provider under a name; a provider of a kind, created by the entry
\* 'from' of the configuration (0: a default).
NoStorage == [present |-> FALSE, kind |-> "", from |-> 0]

StorageOf(kind, from) == [present |-> TRUE, kind |-> kind, from |-> from]

\* The name of an entry: its name, or its kind when the name is empty.
NameOf(secret) == IF secret.name = "" THEN secret.kind ELSE secret.name

\* Variant: no name is ever found registered.
Found_Never(reg, name) == FALSE

\* storage[name] is found.
Found(reg, name) == reg[name].present

\* secrets.GetSecret: the name of the provider a credential field is read
\* through; a plain value is read through 'plaintext'.
RefProvider(ref) == IF ref = NoRef THEN "plaintext" ELSE ref

\* secrets.GetSecret succeeds when the provider is registered (the path is
\* taken to exist in it).
GetSecretOK(ref, reg) ==
    RefProvider(ref) \in DOMAIN reg /\ reg[RefProvider(ref)].present

\* The entry at the current position of a pass.
CurrentSecret == secretsCfg[regIdx]

\* The current entry belongs to the current pass.
InThisPass ==
    /\ regPc \in {"base", "nonbase"}
    /\ regIdx <= Len(secretsCfg)
    /\ isABaseSecretStorageKind(CurrentSecret.kind) <=> regPc = "base"

\* Startup begins with an empty registry.
StartImport ==
    /\ regPc = "idle"
    /\ regPc' = "base"
    /\ regIdx' = 1
    /\ UNCHANGED <<secretsCfg, keysCfg, k8sHost, storage, keys, regErr, resolved>>

\* importSecrets: an entry of the other pass is skipped.
SkipEntry ==
    /\ regPc \in {"base", "nonbase"}
    /\ regIdx <= Len(secretsCfg)
    /\ ~InThisPass
    /\ regIdx' = regIdx + 1
    /\ UNCHANGED <<secretsCfg, keysCfg, k8sHost, storage, keys, regPc, regErr, resolved>>

\* loadSecretConfig: the name is not registered, the credentials resolve,
\* and the provider is registered.
LoadSecretOK ==
    /\ InThisPass
    /\ ~Found(storage, NameOf(CurrentSecret))
    /\ CurrentSecret.kind \in SecretKinds
    /\ CurrentSecret.kind \in ReferencingKinds => GetSecretOK(CurrentSecret.ref, storage)
    /\ storage' = [storage EXCEPT ![NameOf(CurrentSecret)] =
                       StorageOf(CurrentSecret.kind, regIdx)]
    /\ resolved' =
         IF CurrentSecret.kind \in ReferencingKinds
         THEN resolved \cup {[entry |-> regIdx,
                              via |-> storage[RefProvider(CurrentSecret.ref)]]}
         ELSE resolved
    /\ regIdx' = regIdx + 1
    /\ UNCHANGED <<secretsCfg, keysCfg, k8sHost, keys, regPc, regErr>>

\* loadSecretConfig: the name is already registered.
LoadSecretDuplicate ==
    /\ InThisPass
    /\ Found(storage, NameOf(CurrentSecret))
    /\ regErr' = "duplicate secret configuration"
    /\ regPc' = "failed"
    /\ UNCHANGED <<secretsCfg, keysCfg, k8sHost, storage, keys, regIdx, resolved>>

\* loadSecretConfig: the kind is not known.
LoadSecretUnknownKind ==
    /\ InThisPass
    /\ ~Found(storage, NameOf(CurrentSecret))
    /\ CurrentSecret.kind \notin SecretKinds
    /\ regErr' = "unknown secret provider type"
    /\ regPc' = "failed"
    /\ UNCHANGED <<secretsCfg, keysCfg, k8sHost, storage, keys, regIdx, resolved>>

\* loadSecretConfig: a credential refers to a provider that is not
\* registered.
LoadSecretDangling ==
    /\ InThisPass
    /\ ~Found(storage, NameOf(CurrentSecret))
    /\ CurrentSecret.kind \in ReferencingKinds
    /\ ~GetSecretOK(CurrentSecret.ref, storage)
    /\ regErr' = "secret provider not found"
    /\ regPc' = "failed"
    /\ UNCHANGED <<secretsCfg, keysCfg, k8sHost, storage, keys, regIdx, resolved>>

\* The default of a name: installed unless the name is registered;
\* kubernetes only inside a cluster.
DefaultOf(reg, name) ==
    IF Found(reg, name) THEN reg[name]
    ELSE IF name = "kubernetes" /\ ~k8sHost THEN reg[name]
    ELSE StorageOf(name, 0)

\* loadDefaultSecretConfig, between the two passes.
LoadDefaultSecretConfig ==
    /\ regPc = "base"
    /\ regIdx > Len(secretsCfg)
    /\ storage' = [n \in StorageNames |->
                      IF n \in baseSecretStorageKinds THEN DefaultOf(storage, n)
                      ELSE storage[n]]
    /\ regPc' = "nonbase"
    /\ regIdx' = 1
    /\ UNCHANGED <<secretsCfg, keysCfg, k8sHost, keys, regErr, resolved>>

\* No key provider of a kind; a key provider created by an entry (0: the
\* default native provider).
NoKeyProvider == [present |-> FALSE, from |-> 0]

\* importSecrets has returned nil; importKeyProviders starts by
\* registering the native provider over the 'file' storage.
ImportKeysBegin ==
    /\ regPc = "nonbase"
    /\ regIdx > Len(secretsCfg)
    /\ \E kc \in KeyConfigs : keysCfg' = kc
    /\ keys' = [k \in KeyKinds |->
                   IF k = "native" THEN [present |-> TRUE, from |-> 0] ELSE NoKeyProvider]
    /\ regPc' = "keys"
    /\ regIdx' = 1
    /\ UNCHANGED <<secretsCfg, k8sHost, storage, regErr, resolved>>

\* The key provider entry at the current position.
CurrentKey == keysCfg[regIdx]

\* The error of the case of the switch that handles an entry, Nil if none.
KeyEntryError(kc) ==
    IF kc.kind = "native"
    THEN IF kc.secretProvider \in DOMAIN storage /\ Found(storage, kc.secretProvider)
         THEN Nil ELSE "secret storage name not found"
    ELSE IF GetSecretOK(kc.ref, storage) THEN Nil ELSE "secret provider not found"

\* The switch of importKeyProviders has no case for the kind.
SkipsUnknownKind(kind) == kind \notin KeyKinds

\* importKeyProviders: an entry of a known kind is registered under its
\* kind.
ImportKeyOK ==
    /\ regPc = "keys"
    /\ regIdx <= Len(keysCfg)
    /\ CurrentKey.kind \in KeyKinds
    /\ KeyEntryError(CurrentKey) = Nil
    /\ keys' = [keys EXCEPT ![CurrentKey.kind] = [present |-> TRUE, from |-> regIdx]]
    /\ regIdx' = regIdx + 1
    /\ UNCHANGED <<secretsCfg, keysCfg, k8sHost, storage, regPc, regErr, resolved>>

\* importKeyProviders: the storage or a credential of the entry is not found.
ImportKeyFail ==
    /\ regPc = "keys"
    /\ regIdx <= Len(keysCfg)
    /\ CurrentKey.kind \in KeyKinds
    /\ KeyEntryError(CurrentKey) # Nil
    /\ regErr' = KeyEntryError(CurrentKey)
    /\ regPc' = "failed"
    /\ UNCHANGED <<secretsCfg, keysCfg, k8sHost, storage, keys, regIdx, resolved>>

\* importKeyProviders: no case of the switch matches; the loop goes on.
ImportKeySkipUnknown ==
    /\ regPc = "keys"
    /\ regIdx <= Len(keysCfg)
    /\ SkipsUnknownKind(CurrentKey.kind)
    /\ regIdx' = regIdx + 1
    /\ UNCHANGED <<secretsCfg, keysCfg, k8sHost, storage, keys, regPc, regErr, resolved>>

\* importKeyProviders returns nil.
ImportKeysDone ==
    /\ regPc = "keys"
    /\ regIdx > Len(keysCfg)
    /\ regPc' = "done"
    /\ UNCHANGED <<secretsCfg, keysCfg, k8sHost, storage, keys, regIdx, regErr, resolved>>

RegInit ==
    /\ secretsCfg \in SecretConfigs
    /\ keysCfg = <<>>
    /\ k8sHost \in BOOLEAN
    /\ storage = [n \in StorageNames |-> NoStorage]
    /\ keys = [k \in KeyKinds |-> NoKeyProvider]
    /\ regPc = "idle"
    /\ regIdx = 0
    /\ regErr = Nil
    /\ resolved = {}

RegNext ==
    \/ StartImport
    \/ SkipEntry
    \/ LoadSecretOK
    \/ LoadSecretDuplicate
    \/ LoadSecretUnknownKind
    \/ LoadSecretDangling
    \/ LoadDefaultSecretConfig
    \/ ImportKeysBegin
    \/ ImportKeyOK
    \/ ImportKeyFail
    \/ ImportKeySkipUnknown
    \/ ImportKeysDone

RegStart == PollInit /\ KeyIdle /\ AuthIdle /\ BootIdle /\ RegInit /\ PwIdle /\ CredIdle

RegStep == RegNext /\ UNCHANGED <<pollVars, keyVars, authVars, bootVars, pwVars, credVars>>

RegSpec == RegStart /\ [][RegStep]_vars

\* C22: a registered storage provider is never replaced, and when
\* importSecrets succeeds every entry is the provider registered under its
\* name: no two entries share a name and no entry has the name of an
\* installed default.
C22_DuplicateNameFails ==
    [][/\ \A n \in StorageNames : storage[n].present => storage'[n] = storage[n]
       /\ (regPc = "nonbase" /\ regPc' = "keys") =>
             \A i \in 1..Len(secretsCfg) :
                storage[NameOf(secretsCfg[i])] = StorageOf(secretsCfg[i].kind, i)]_vars

\* importSecrets has failed in the second pass on a non-base entry named
\* as the default 'file' provider, which is still the registered one.
C22_Witness ==
    /\ regPc = "failed"
    /\ regErr = "duplicate secret configuration"
    /\ ~isABaseSecretStorageKind(CurrentSecret.kind)
    /\ storage[NameOf(CurrentSecret)] = StorageOf("file", 0)

\* C23: importKeyProviders returns nil only when every entry has a known
\* kind.
C23_UnknownKeyKindFails ==
    regPc = "done" => \A i \in 1..Len(keysCfg) : keysCfg[i].kind \in KeyKinds

\* C24: a credential reference of a non-base provider is resolved through
\* a base provider only, never through another non-base entry, whatever
\* the order of the entries.
C24_ResolvedAgainstBaseOnly ==
    \A r \in resolved : isABaseSecretStorageKind(r.via.kind)

\* ===================================================================
\* Part VI: the password rules
\* ===================================================================

\* The shortest password accepted.
MinPasswordLength == 8

\* The run length at which hasSequence and hasRepeat answer true.
RunLength == 4

\* The code points of 'a' .. 'd'.
CodePoints == 97..100

\* The name of the service, "infra".
ServiceName == <<105, 110, 102, 114, 97>>

\* User names: "dada", "bc".
PwUserNames == {<<100, 97, 100, 97>>, <<98, 99>>}

Passwords ==
    UNION {[1..n -> CodePoints] : n \in (MinPasswordLength - 1)..MaxPasswordLength}

\* strings.Contains.
Contains(str, substr) ==
    \E i \in 0..(Len(str) - Len(substr)) :
        \A j \in 1..Len(substr) : str[i + j] = substr[j]

\* The loop of hasRepeat from the i-th character on, with its variables
\* char and count.
RECURSIVE hasRepeatFrom(_, _, _, _)
hasRepeatFrom(pw, i, char, count) ==
    IF i > Len(pw) THEN FALSE
    ELSE IF pw[i] # char THEN hasRepeatFrom(pw, i + 1, pw[i], 1)
    ELSE IF count + 1 >= RunLength THEN TRUE
    ELSE hasRepeatFrom(pw, i + 1, char, count + 1)

hasRepeat(pw) == hasRepeatFrom(pw, 1, 0, 0)

\* The loop of hasSequence from the i-th character on, with its variables
\* char and count: char is assigned only when the character is not char+1.
RECURSIVE hasSequenceFrom(_, _, _, _)
hasSequenceFrom(pw, i, char, count) ==
    IF i > Len(pw) THEN FALSE
    ELSE IF pw[i] # char + 1 THEN hasSequenceFrom(pw, i + 1, pw[i], 1)
    ELSE IF count + 1 >= RunLength THEN TRUE
    ELSE hasSequenceFrom(pw, i + 1, char, count + 1)

hasSequence(pw) == hasSequenceFrom(pw, 1, 0, 0)

\* checkPasswordRequirements: the first rule the password breaks.
checkPasswordRequirements(user, pw) ==
    IF Len(pw) < MinPasswordLength THEN "must be at least 8 characters"
    ELSE IF Contains(pw, user) THEN "cannot contain user name"
    ELSE IF Contains(pw, ServiceName)
         THEN "cannot contain common names such as the name of the service"
    ELSE IF hasSequence(pw) THEN "must not have common sequences of characters"
    ELSE IF hasRepeat(pw) THEN "must not have repeating characters"
    ELSE Nil

\* The password of a user is checked.
CheckPassword ==
    /\ pwPc = "idle"
    /\ pwResult' = checkPasswordRequirements(pwUser, pwPassword)
    /\ pwPc' = "checked"
    /\ UNCHANGED <<pwUser, pwPassword>>

PwInit ==
    /\ pwUser \in PwUserNames
    /\ pwPassword \in Passwords
    /\ pwPc = "idle"
    /\ pwResult = Nil

PwNext == CheckPassword

PwStart == PollInit /\ KeyIdle /\ AuthIdle /\ BootIdle /\ RegIdle /\ PwInit /\ CredIdle

PwStep == PwNext /\ UNCHANGED <<pollVars, keyVars, authVars, bootVars, regVars, credVars>>

PwSpec == PwStart /\ [][PwStep]_vars

\* The password contains four characters with consecutive ascending code
\* points.
HasAscendingRun(pw) ==
    \E i \in 1..(Len(pw) - 3) : \A j \in 1..3 : pw[i + j] = pw[i + j - 1] + 1

\* C26: a password of eight characters or more is rejected when it holds
\* four characters with consecutive ascending code points, and is not
\* rejected for the sequence rule when it holds none.
C26_SequenceRule ==
    (pwPc = "checked" /\ Len(pwPassword) >= MinPasswordLength) =>
        /\ HasAscendingRun(pwPassword) => pwResult # Nil
        /\ ~HasAscendingRun(pwPassword) =>
              pwResult # "must not have common sequences of characters"

\* ===================================================================
\* Part VII: the credential handlers
\* ===================================================================

ScopePasswordReset == "password-reset"

\* The identities, by name: "dada", "bc"; and an email of no identity.
CredUsers == PwUserNames

UnknownEmail == <<97, 100>>

\* "cadacada", "cadacad", "aabbbcca", "acacbdbd".
GoodPassword == <<99, 97, 100, 97, 99, 97, 100, 97>>

CredPasswords ==
    { GoodPassword,
      <<99, 97, 100, 97, 99, 97, 100>>,
      <<97, 97, 98, 98, 98, 99, 99, 97>>,
      <<97, 99, 97, 99, 98, 100, 98, 100>> }

\* The scopes an access key may carry, in order.
ScopeLists ==
    { <<>>,
      <<ScopePasswordReset>>,
      <<ScopeAllowCreateAccessKey, ScopePasswordReset>>,
      <<ScopePasswordReset, ScopeAllowCreateAccessKey, ScopePasswordReset>> }

\* No credential; a credential with its hash and one-time flag.
NoCredential == [present |-> FALSE, hash |-> <<>>, oneTime |-> FALSE]

CredentialOf(pw, oneTime) == [present |-> TRUE, hash |-> pw, oneTime |-> oneTime]

\* bcrypt.CompareHashAndPassword.
CompareHashAndPassword(hash, pw) == hash = pw

\* The status of a response, from the error of the handler.
StatusOf(failure) ==
    IF failure = Nil THEN 204
    ELSE IF failure \in {"record not found", "existing credential: record not found"} THEN 404
    ELSE IF failure = "rate limited" THEN 429
    ELSE IF failure = "forbidden" THEN 403
    ELSE IF failure \in {"sending email", "saving credentials", "updating access key"} THEN 500
    ELSE 400

\* The request transaction is committed when the handler returns no error
\* and rolled back otherwise.
Committed(d, after, failure) == IF failure = Nil THEN after ELSE d

\* RequestPasswordReset: the error returned and the database the handler
\* leaves in its transaction.
RequestPasswordResetResult(d, email, limited, sendFails) ==
    IF limited THEN [db |-> d, err |-> "rate limited"]
    ELSE IF email \notin CredUsers THEN [db |-> d, err |-> Nil]
    ELSE IF ~d.credentials[email].present THEN [db |-> d, err |-> "record not found"]
    ELSE IF sendFails
         THEN [db |-> [d EXCEPT !.resetTokens = @ \cup {email}], err |-> "sending email"]
    ELSE [db |-> [d EXCEPT !.resetTokens = @ \cup {email}, !.emails = @ \cup {email}],
          err |-> Nil]

\* Variant: every scope is dropped.
WithoutPasswordReset_DropsAll(scopes) == <<>>

\* The scopes of the key without password-reset, in their order.
WithoutPasswordReset(scopes) == SelectSeq(scopes, LAMBDA sc : sc # ScopePasswordReset)

\* updateCredential: the error, the database in the transaction and the
\* access key in memory. fail names the data call that fails, if any.
updateCredential(d, auth, user, newPassword, isSelf, fail) ==
    IF checkPasswordRequirements(user, newPassword) # Nil
    THEN [db |-> d, auth |-> auth, err |-> checkPasswordRequirements(user, newPassword)]
    ELSE IF ~d.credentials[user].present
    THEN IF ~isSelf
         THEN [db |-> [d EXCEPT !.credentials[user] = CredentialOf(newPassword, TRUE)],
               auth |-> auth, err |-> Nil]
         ELSE [db |-> d, auth |-> auth, err |-> "existing credential: record not found"]
    ELSE IF fail = "UpdateCredential"
    THEN [db |-> d, auth |-> auth, err |-> "saving credentials"]
    ELSE LET saved == [d EXCEPT !.credentials[user] = CredentialOf(newPassword, ~isSelf)]
             scopes == WithoutPasswordReset(auth.scopes)
         IN  IF ~(isSelf /\ auth.hasKey) THEN [db |-> saved, auth |-> auth, err |-> Nil]
             ELSE IF fail = "UpdateAccessKey"
             THEN [db |-> saved, auth |-> [auth EXCEPT !.scopes = scopes],
                   err |-> "updating access key"]
             ELSE [db |-> [saved EXCEPT !.scopes = scopes],
                   auth |-> [auth EXCEPT !.scopes = scopes], err |-> Nil]

\* UpdateCredential: authorization and the old password, then
\* updateCredential.
UpdateCredentialResult(d, auth, user, oldPassword, newPassword, fail) ==
    LET isSelf == auth.user = user IN
    IF ~isSelf /\ ~auth.isAdmin THEN [db |-> d, auth |-> auth, err |-> "forbidden"]
    ELSE IF isSelf /\ oldPassword = <<>>
    THEN [db |-> d, auth |-> auth, err |-> "oldPassword: is required"]
    ELSE IF isSelf /\ ~d.credentials[user].present
    THEN [db |-> d, auth |-> auth, err |-> "existing credential: record not found"]
    ELSE IF isSelf /\ ~CompareHashAndPassword(d.credentials[user].hash, oldPassword)
    THEN [db |-> d, auth |-> auth, err |-> "oldPassword: invalid oldPassword"]
    ELSE updateCredential(d, auth, user, newPassword, isSelf, fail)

\* The handler of POST /api/password-reset serves a request.
RequestPasswordReset ==
    /\ credPc = "idle"
    /\ \E email \in CredUsers \cup {UnknownEmail}, limited \in BOOLEAN, sendFails \in BOOLEAN :
          LET res == RequestPasswordResetResult(credDb, email, limited, sendFails) IN
          /\ credReq' = [op |-> "reset", email |-> email, limited |-> limited]
          /\ credDb' = Committed(credDb, res.db, res.err)
          /\ credResp' = [status |-> StatusOf(res.err), err |-> res.err]
    /\ credPc' = "done"
    /\ UNCHANGED credAuth

\* The handler of a password change serves a request.
UpdateCredential ==
    /\ credPc = "idle"
    /\ \E user \in CredUsers, oldPassword \in CredPasswords \cup {<<>>},
          newPassword \in CredPasswords,
          fail \in {"none", "UpdateCredential", "UpdateAccessKey"} :
          LET res == UpdateCredentialResult(credDb, credAuth, user, oldPassword,
                                            newPassword, fail) IN
          /\ credReq' = [op |-> "update", user |-> user, oldPassword |-> oldPassword,
                         newPassword |-> newPassword]
          /\ credDb' = Committed(credDb, res.db, res.err)
          /\ credAuth' = res.auth
          /\ credResp' = [status |-> StatusOf(res.err), err |-> res.err]
    /\ credPc' = "done"

\* The response is sent; the next request is authenticated with the key
\* as it is stored.
NextRequest ==
    /\ credPc = "done"
    /\ credPc' = "idle"
    /\ credAuth' = [credAuth EXCEPT !.scopes = credDb.scopes]
    /\ credReq' = [op |-> "none"]
    /\ credResp' = [status |-> 0, err |-> Nil]
    /\ UNCHANGED credDb

CredInit ==
    /\ \E withCred \in SUBSET CredUsers, scopes \in ScopeLists :
          credDb = [credentials |-> [u \in CredUsers |->
                                        IF u \in withCred THEN CredentialOf(GoodPassword, TRUE)
                                        ELSE NoCredential],
                    scopes |-> scopes, resetTokens |-> {}, emails |-> {}]
    /\ \E user \in CredUsers, isAdmin \in BOOLEAN, hasKey \in BOOLEAN :
          credAuth = [user |-> user, isAdmin |-> isAdmin, hasKey |-> hasKey,
                      scopes |-> credDb.scopes]
    /\ credReq = [op |-> "none"]
    /\ credResp = [status |-> 0, err |-> Nil]
    /\ credPc = "idle"

CredNext == RequestPasswordReset \/ UpdateCredential \/ NextRequest

CredStart == PollInit /\ KeyIdle /\ AuthIdle /\ BootIdle /\ RegIdle /\ PwIdle /\ CredInit

CredStep == CredNext /\ UNCHANGED <<pollVars, keyVars, authVars, bootVars, regVars, pwVars>>

CredSpec == CredStart /\ [][CredStep]_vars

\* C25: a password-reset request that is not rate limited is answered with
\* the same empty success response for every email, and for an unknown
\* email no token is created and no email is sent.
C25_NoAccountOracle ==
    [][(credPc = "idle" /\ credPc' = "done" /\ credReq'.op = "reset"
           /\ ~credReq'.limited) =>
          /\ credResp'.status = 204
          /\ credReq'.email = UnknownEmail => credDb' = credDb]_vars

\* The authenticated user changes their own password with the key that
\* authenticated the request.
OwnPasswordChange ==
    /\ credPc = "idle" /\ credPc' = "done"
    /\ credReq'.op = "update" /\ credReq'.user = credAuth.user
    /\ credAuth.hasKey

\* C27: a successful change of one's own password stores the new password
\* and the scopes of the authenticating key without password-reset, the
\* others kept in order; a failed one leaves the database unchanged, and a
\* refused one (old password, password rules) the key in memory too.
C27_ResetScopeRemoved ==
    [][OwnPasswordChange =>
          /\ credResp'.err = Nil =>
                /\ credDb'.scopes = SelectSeq(credDb.scopes, LAMBDA sc : sc # "password-reset")
                /\ credDb'.credentials[credAuth.user].hash = credReq'.newPassword
                /\ credAuth'.scopes = credDb'.scopes
          /\ credResp'.err # Nil => credDb' = credDb
          /\ credResp'.status = 400 => credAuth' = credAuth]_vars

\* A user has changed their own password and the stored key, which carried
\* allow-create-access-key and password-reset, carries the first only.
C27_Witness ==
    /\ credPc = "done" /\ credReq.op = "update" /\ credReq.user = credAuth.user
    /\ credAuth.hasKey /\ credResp.err = Nil
    /\ credDb.scopes = <<"allow-create-access-key">>
    /\ credDb.credentials[credAuth.user] =
           [present |-> TRUE, hash |-> <<97, 99, 97, 99, 98, 100, 98, 100>>, oneTime |-> FALSE]

\* ===================================================================
\* Part I, continued: wake-ups and pooled connections
\* ===================================================================

\* C28: a long-poll that was blocked returns not-modified on its deadline
\* only when the committed max update index is not above the index of the
\* request, or when a notification was arriving as the deadline passed.
C28_NoLostWakeup ==
    [][\A r \in Reqs :
          (pc[r] = "wait" /\ pc'[r] # "wait" /\ err'[r] = "notModified") =>
              \/ DestinationAccessMaxUpdateIndex(db) <= last[r]
              \/ connPending[conn[r]] > 0]_vars

\* C29: when a long-poll blocks, its connection listens on the channel of
\* the destination and on the membership channel of every group with a
\* grant in the snapshot it has read.
C29_SubscribedToSnapshotGroups ==
    [][\A r \in Reqs :
          (pc[r] = "snapMax" /\ pc'[r] = "wait") =>
              /\ GrantsByDestChannel \in connSubs[conn[r]]
              /\ \A g \in GrantGroups(TxView(r)) :
                    GroupMembershipChannel(g) \in connSubs[conn[r]]]_vars

\* C30: a connection in the pool listens on no channel.
C30_PooledConnHasNoSubscriptions ==
    \A c \in Conns : connOwner[c] = "pool" => connSubs[c] = {}

====
